---- MODULE Spec2Model ----
(***************************************************************************)
(* Order execution core of btc_algo_trader: the OrderManager               *)
(* (src/execution/order_manager.py) over the PaperExecutor                 *)
(* (src/execution/paper_executor.py), driven either call by call or by     *)
(* the BTCTrader loops (src/live/btc_trader.py).                           *)
(*                                                                         *)
(* Numbers.  The code computes in floats.  The model computes in integers: *)
(* amounts are whole units, prices are multiples of ptc.den, so that every *)
(* product with the rational ptc is an integer and every value the model   *)
(* computes is the value the code computes on the same inputs (all of them *)
(* are integers below 2^53, which floats hold exactly).  A rational r is a *)
(* record [num, den] and x * r is (x * r.num) \div r.den.                  *)
(***************************************************************************)
EXTENDS Integers, Sequences, FiniteSets, TLC

VARIABLES
    om,          \* the OrderManager object: its fields
    executor,    \* the PaperExecutor object: its fields
    last,        \* the last call on the two objects: arguments, result, orders sent
    mode,        \* which driver runs: "api", "poll" (run_polling) or "run_on_data"
    pc,          \* position of the driver loop inside the current tick
    tick,        \* the driver's signal and current_price, and the last close of bar_data
    tick_calls,  \* OrderManager calls made so far by the current tick, in order
    n_ticks,     \* ticks started so far
    bt           \* the object of the backtesting package under study: its fields and loop position

vars == <<om, executor, last, mode, pc, tick, tick_calls, n_ticks, bt>>

----------------------------------------------------------------------------
(* Bounds of the exploration *)

MaxAmount == 2      \* amounts requested are 0..MaxAmount
MaxHistory == 4     \* calls are explored while equity samples + 2 * trade records + fills are fewer
MaxTicks  == 3      \* ticks of the driver loop

(* Inputs *)

Signals == {-1, 0, 1}
Amounts == 0..MaxAmount
Prices  == {4, 16, 24}

(* Constructor arguments of the objects under study *)

DefaultPrice == 50000                        \* PaperExecutor._last_price before set_price
InitialCapital == 56                         \* initial_usdt and initial_capital
Ptc == [num |-> 1, den |-> 4]                \* PaperExecutor ptc
Ftc == 0                                     \* PaperExecutor ftc
MaxPositionSize == 1                         \* OrderManager max_position_size
MaxDrawdownPct == [num |-> 1, den |-> 4]     \* OrderManager max_drawdown_pct
Units == 1                                   \* TradingConfig.units

----------------------------------------------------------------------------
(* Values *)

None == << >>
Some(x) == <<x>>

\* no backtest engine has been constructed
NoBacktest == [engine |-> "none"]

Times(x, r) == (x * r.num) \div r.den

Abs(x) == IF x < 0 THEN -x ELSE x

Last(s) == s[Len(s)]

RECURSIVE SeqMax(_)
SeqMax(s) ==
    IF Len(s) = 1 THEN s[1]
    ELSE LET m == SeqMax(SubSeq(s, 1, Len(s) - 1))
         IN IF Last(s) > m THEN Last(s) ELSE m

Position(side, entry_price, amount) ==
    [side |-> side, entry_price |-> entry_price, amount |-> amount,
     unrealized_pnl |-> 0]

FlatPosition == Position(0, 0, 0)

----------------------------------------------------------------------------
(* PaperExecutor *)

PaperExecutor(initial_usdt, ptc, ftc) ==
    [usdt |-> initial_usdt, btc |-> 0, ptc |-> ptc, ftc |-> ftc,
     last_price |-> DefaultPrice, order_count |-> 0, trade_log |-> << >>]

set_price(ex, price) == [ex EXCEPT !.last_price = price]

get_balance(ex) ==
    [USDT_free |-> ex.usdt,
     USDT_total |-> ex.usdt + ex.btc * ex.last_price,
     BTC_free |-> ex.btc,
     BTC_total |-> ex.btc]

log_order_stale_counter(ex, side, order_type, amount, price, tc) ==
    LET n == ex.order_count + 1
        order == [id |-> <<"paper", n>>, status |-> "closed", side |-> side,
                  type |-> order_type, amount |-> amount, filled |-> amount,
                  price |-> price, cost |-> amount * price, tc |-> tc]
    IN [ex |-> [ex EXCEPT !.trade_log = Append(@, order)],
        order |-> Some(order)]

log_order(ex, side, order_type, amount, price, tc) ==
    LET n == ex.order_count + 1
        order == [id |-> <<"paper", n>>, status |-> "closed", side |-> side,
                  type |-> order_type, amount |-> amount, filled |-> amount,
                  price |-> price, cost |-> amount * price, tc |-> tc]
    IN [ex |-> [ex EXCEPT !.order_count = n, !.trade_log = Append(@, order)],
        order |-> Some(order)]

market_buy(ex, amount) ==
    LET cost == amount * ex.last_price
        tc == Times(cost, ex.ptc) + ex.ftc
    IN IF cost + tc > ex.usdt
       THEN [ex |-> ex, order |-> None]
       ELSE log_order([ex EXCEPT !.usdt = @ - (cost + tc), !.btc = @ + amount],
                      "buy", "market", amount, ex.last_price, tc)

market_sell_no_fixed_cost(ex, amount, reduce_only) ==
    IF amount > ex.btc /\ ~reduce_only
    THEN [ex |-> ex, order |-> None]
    ELSE LET proceeds == amount * ex.last_price
             tc == Times(proceeds, ex.ptc)
         IN log_order([ex EXCEPT !.usdt = @ + (proceeds - tc), !.btc = @ - amount],
                      "sell", "market", amount, ex.last_price, tc)

market_sell(ex, amount, reduce_only) ==
    IF amount > ex.btc /\ ~reduce_only
    THEN [ex |-> ex, order |-> None]
    ELSE LET proceeds == amount * ex.last_price
             tc == Times(proceeds, ex.ptc) + ex.ftc
         IN log_order([ex EXCEPT !.usdt = @ + (proceeds - tc), !.btc = @ - amount],
                      "sell", "market", amount, ex.last_price, tc)

limit_buy(ex, amount, price) ==
    \* executed at once at the limit price
    LET cost == amount * price
        tc == Times(cost, ex.ptc) + ex.ftc
    IN IF cost + tc > ex.usdt
       THEN [ex |-> ex, order |-> None]
       ELSE log_order([ex EXCEPT !.usdt = @ - (cost + tc), !.btc = @ + amount],
                      "buy", "limit", amount, price, tc)

limit_sell(ex, amount, price) ==
    IF amount > ex.btc
    THEN [ex |-> ex, order |-> None]
    ELSE LET proceeds == amount * price
             tc == Times(proceeds, ex.ptc) + ex.ftc
         IN log_order([ex EXCEPT !.usdt = @ + (proceeds - tc), !.btc = @ - amount],
                      "sell", "limit", amount, price, tc)

cancel_all_orders(ex) == [ex |-> ex, ok |-> TRUE]

paper_order_step(ex, side, amount, step) ==
    \* market_buy / market_sell and the _log_order they end with, one
    \* statement that changes the ledger at a time; step is the number of
    \* those statements already run, and done says that the call returns
    LET value == amount * ex.last_price
        tc == Times(value, ex.ptc) + ex.ftc
        order == [id |-> <<"paper", ex.order_count>>, status |-> "closed",
                  side |-> side, type |-> "market", amount |-> amount,
                  filled |-> amount, price |-> ex.last_price,
                  cost |-> value, tc |-> tc]
    IN IF step = 0
       THEN IF side = "buy"
            THEN IF value + tc > ex.usdt
                 THEN [ex |-> ex, order |-> None, done |-> TRUE]
                 ELSE [ex |-> [ex EXCEPT !.usdt = @ - (value + tc)],
                       order |-> None, done |-> FALSE]
            ELSE IF amount > ex.btc
                 THEN [ex |-> ex, order |-> None, done |-> TRUE]
                 ELSE [ex |-> [ex EXCEPT !.usdt = @ + (value - tc)],
                       order |-> None, done |-> FALSE]
       ELSE IF step = 1
       THEN [ex |-> [ex EXCEPT !.btc = IF side = "buy" THEN @ + amount ELSE @ - amount],
             order |-> None, done |-> FALSE]
       ELSE IF step = 2
       THEN [ex |-> [ex EXCEPT !.order_count = @ + 1], order |-> None, done |-> FALSE]
       ELSE [ex |-> [ex EXCEPT !.trade_log = Append(@, order)],
             order |-> Some(order), done |-> TRUE]

----------------------------------------------------------------------------
(* MEXCExecutor, the live executor.  What the exchange answers to each     *)
(* request is an input: an order, a balance, or the ccxt error it raises.  *)

MaxRetries == 3

OrderReplies ==
    {"ok", "InsufficientFunds", "InvalidOrder", "NetworkError",
     "ExchangeNotAvailable", "ExchangeError"}

BalanceReplies == {"ok", "NetworkError", "ExchangeNotAvailable"}

LiveMarkets ==
    \* markets.get(symbol): no entry, or an entry with its minimum amount
    {None, Some([min_amount |-> None]), Some([min_amount |-> Some(0)]),
     Some([min_amount |-> Some(2)])}

LiveBalances == {40, InitialCapital}

EmptyDict == << >>

MEXCExecutor(trading_type, market) ==
    \* cancel_reply is what the exchange will answer to cancel_all_orders
    [trading_type |-> trading_type, market |-> market,
     create_order_calls |-> 0, slept |-> 0,
     cancel_reply |-> "ok"]

mexc_get_balance(ex, reply, usdt_total) ==
    \* raised is the exception that reaches the caller: every ccxt.BaseError
    \* of fetch_balance is caught and the empty dict returned
    IF reply = "ok"
    THEN [raised |-> None,
          ret |-> [USDT_free |-> usdt_total, USDT_total |-> usdt_total,
                   BTC_free |-> 0, BTC_total |-> 0]]
    ELSE [raised |-> None, ret |-> EmptyDict]

BelowMinimum(ex, amount) ==
    /\ ex.market # None
    /\ LET min_amount == ex.market[1].min_amount
       IN /\ min_amount # None
          /\ min_amount[1] # 0
          /\ amount < min_amount[1]

create_order_attempt_retrying(ex, request, reply, attempt) ==
    LET called == [ex EXCEPT !.create_order_calls = @ + 1]
    IN IF reply = "ok"
       THEN [ex |-> called,
             order |-> Some([id |-> <<"mexc", called.create_order_calls>>,
                             status |-> "closed", side |-> request.side,
                             type |-> request.type,
                             amount |-> request.amount,
                             price |-> request.price,
                             reduceOnly |-> request.reduceOnly]),
             done |-> TRUE]
       ELSE IF reply \in {"NetworkError", "ExchangeNotAvailable",
                          "InsufficientFunds", "InvalidOrder"}
       THEN [ex |-> [called EXCEPT !.slept = @ + 2 ^ attempt], order |-> None,
             done |-> attempt + 1 >= MaxRetries]
       ELSE [ex |-> called, order |-> None, done |-> TRUE]

create_order_attempt_without_backoff(ex, request, reply, attempt) ==
    LET called == [ex EXCEPT !.create_order_calls = @ + 1]
    IN IF reply = "ok"
       THEN [ex |-> called,
             order |-> Some([id |-> <<"mexc", called.create_order_calls>>,
                             status |-> "closed", side |-> request.side,
                             type |-> request.type,
                             amount |-> request.amount,
                             price |-> request.price,
                             reduceOnly |-> request.reduceOnly]),
             done |-> TRUE]
       ELSE IF reply \in {"InsufficientFunds", "InvalidOrder"}
       THEN [ex |-> called, order |-> None, done |-> TRUE]
       ELSE IF reply \in {"NetworkError", "ExchangeNotAvailable"}
       THEN [ex |-> called, order |-> None, done |-> attempt + 1 >= MaxRetries]
       ELSE [ex |-> called, order |-> None, done |-> TRUE]

create_order_attempt(ex, request, reply, attempt) ==
    \* one pass of the retry loop, attempt being 0-based: the create_order
    \* call, then the return or the sleep; done says that _place_order
    \* returns after it (the loop is over after the last sleep)
    LET called == [ex EXCEPT !.create_order_calls = @ + 1]
    IN IF reply = "ok"
       THEN [ex |-> called,
             order |-> Some([id |-> <<"mexc", called.create_order_calls>>,
                             status |-> "closed", side |-> request.side,
                             type |-> request.type,
                             amount |-> request.amount,
                             price |-> request.price,
                             reduceOnly |-> request.reduceOnly]),
             done |-> TRUE]
       ELSE IF reply \in {"InsufficientFunds", "InvalidOrder"}
       THEN [ex |-> called, order |-> None, done |-> TRUE]
       ELSE IF reply \in {"NetworkError", "ExchangeNotAvailable"}
       THEN [ex |-> [called EXCEPT !.slept = @ + 2 ^ attempt], order |-> None,
             done |-> attempt + 1 >= MaxRetries]
       ELSE [ex |-> called, order |-> None, done |-> TRUE]

\* params and the arguments of create_order
order_request(ex, side, order_type, amount, price, reduce_only) ==
    [side |-> side, type |-> order_type, amount |-> amount, price |-> price,
     reduceOnly |-> reduce_only /\ ex.trading_type = "swap"]

mexc_cancel_all_orders_raising(ex) ==
    IF ex.cancel_reply = "ok"
    THEN [ex |-> ex, ok |-> TRUE, raised |-> None]
    ELSE [ex |-> ex, ok |-> FALSE, raised |-> Some(ex.cancel_reply)]

mexc_cancel_all_orders(ex) ==
    \* every ccxt.BaseError of the exchange is caught and False returned
    IF ex.cancel_reply = "ok"
    THEN [ex |-> ex, ok |-> TRUE, raised |-> None]
    ELSE [ex |-> ex, ok |-> FALSE, raised |-> None]

----------------------------------------------------------------------------
(* The executor of an OrderManager is either of the two (BrokerBase).  The *)
(* orders of the manager go to the paper executor here; on the live        *)
(* executor they are followed pass by pass of the retry loop (LiveOrder).  *)

IsLive(ex) == "trading_type" \in DOMAIN ex

ExecutorMarketBuy(ex, amount) == market_buy(ex, amount)

ExecutorMarketSell(ex, amount) == market_sell(ex, amount, FALSE)

ExecutorCancelAllOrders(ex) ==
    IF IsLive(ex) THEN mexc_cancel_all_orders(ex)
    ELSE LET k == cancel_all_orders(ex)
         IN [ex |-> k.ex, ok |-> k.ok, raised |-> None]

----------------------------------------------------------------------------
(* OrderManager.  Each operation maps the objects before the call to the   *)
(* objects after it, its return value and the requests it sent to the      *)
(* executor, in the order it sent them.                                    *)

OrderManager(max_position_size, max_drawdown_pct, initial_capital) ==
    [max_position_size |-> max_position_size,
     max_drawdown_pct |-> max_drawdown_pct,
     initial_capital |-> initial_capital,
     position |-> FlatPosition,
     trades |-> << >>,
     equity_curve |-> <<initial_capital>>,
     halted |-> FALSE]

is_halted(m) == m.halted

Request(method, amount, result) ==
    [method |-> method, amount |-> amount, order |-> result.order]

DictGet(d, key, default) == IF key \in DOMAIN d THEN d[key] ELSE default

update_equity_with(m, balance, current_price) ==
    \* the body of update_equity, given the dict get_balance() returned
    LET m1 == IF m.position.side # 0
              THEN [m EXCEPT !.position.unrealized_pnl =
                        (current_price - m.position.entry_price)
                        * m.position.amount * m.position.side]
              ELSE m
        equity == DictGet(balance, "USDT_total", Last(m.equity_curve))
    IN [om |-> [m1 EXCEPT !.equity_curve = Append(@, equity)], ret |-> equity]

update_equity(m, ex, current_price) ==
    LET r == update_equity_with(m, get_balance(ex), current_price)
    IN [om |-> r.om, ex |-> ex, ret |-> r.ret]

Drawdown(curve) ==
    \* the fraction dd = (eq[-1] - peak[-1]) / peak[-1], or 0 when peak <= 0
    LET peak == SeqMax(curve)
    IN IF peak > 0 THEN [num |-> Last(curve) - peak, den |-> peak]
       ELSE [num |-> 0, den |-> 1]

Exceeds_or_equal(dd, limit) ==
    Abs(dd.num) * limit.den >= limit.num * dd.den

Exceeds(dd, limit) ==
    \* abs(dd) > limit, both fractions with positive denominators
    Abs(dd.num) * limit.den > limit.num * dd.den

check_risk_recovering(m) ==
    IF Len(m.equity_curve) < 2
    THEN [om |-> m, ret |-> TRUE]
    ELSE IF Exceeds(Drawdown(m.equity_curve), m.max_drawdown_pct)
         THEN [om |-> [m EXCEPT !.halted = TRUE], ret |-> FALSE]
         ELSE [om |-> [m EXCEPT !.halted = FALSE], ret |-> TRUE]

check_risk(m) ==
    IF Len(m.equity_curve) < 2
    THEN [om |-> m, ret |-> TRUE]
    ELSE IF Exceeds(Drawdown(m.equity_curve), m.max_drawdown_pct)
         THEN [om |-> [m EXCEPT !.halted = TRUE], ret |-> FALSE]
         ELSE [om |-> m, ret |-> TRUE]

record_close_overwrite(m, exit_price) ==
    IF m.position.side = 0 THEN m
    ELSE LET pnl == (exit_price - m.position.entry_price)
                    * m.position.amount * m.position.side
         IN [m EXCEPT !.trades =
                <<[side |-> m.position.side, entry |-> m.position.entry_price,
                   exit |-> exit_price, amount |-> m.position.amount,
                   pnl |-> pnl]>>]

record_close_unsigned(m, exit_price) ==
    IF m.position.side = 0 THEN m
    ELSE LET pnl == (exit_price - m.position.entry_price) * m.position.amount
         IN [m EXCEPT !.trades = Append(@,
                [side |-> m.position.side, entry |-> m.position.entry_price,
                 exit |-> exit_price, amount |-> m.position.amount,
                 pnl |-> pnl])]

record_close(m, exit_price) ==
    IF m.position.side = 0 THEN m
    ELSE LET pnl == (exit_price - m.position.entry_price)
                    * m.position.amount * m.position.side
         IN [m EXCEPT !.trades = Append(@,
                [side |-> m.position.side, entry |-> m.position.entry_price,
                 exit |-> exit_price, amount |-> m.position.amount,
                 pnl |-> pnl])]

ClampAmount_unclamped(m, amount) == amount

ClampAmount(m, amount) ==
    IF amount > m.max_position_size THEN m.max_position_size ELSE amount

EffectiveSignal_unhalted(m, signal) == signal

EffectiveSignal(m, signal) == IF m.halted THEN 0 ELSE signal

NoChange_flat_only(m, signal) == signal = m.position.side /\ signal = 0

NoChange(m, signal) == signal = m.position.side

ClosePosition_same_side(m, ex) ==
    IF m.position.side = 1
    THEN LET r == ExecutorMarketBuy(ex, m.position.amount)
         IN [ex |-> r.ex, order |-> r.order,
             orders |-> <<Request("market_buy", m.position.amount, r)>>]
    ELSE IF m.position.side = -1
    THEN LET r == ExecutorMarketSell(ex, m.position.amount)
         IN [ex |-> r.ex, order |-> r.order,
             orders |-> <<Request("market_sell", m.position.amount, r)>>]
    ELSE [ex |-> ex, order |-> None, orders |-> << >>]

ClosePosition(m, ex) ==
    \* the market order that closes the existing position, if any
    IF m.position.side = 1
    THEN LET r == ExecutorMarketSell(ex, m.position.amount)
         IN [ex |-> r.ex, order |-> r.order,
             orders |-> <<Request("market_sell", m.position.amount, r)>>]
    ELSE IF m.position.side = -1
    THEN LET r == ExecutorMarketBuy(ex, m.position.amount)
         IN [ex |-> r.ex, order |-> r.order,
             orders |-> <<Request("market_buy", m.position.amount, r)>>]
    ELSE [ex |-> ex, order |-> None, orders |-> << >>]

OpenPosition_stale_entry(m, c, signal, amount, current_price) ==
    IF signal = 1
    THEN LET r == ExecutorMarketBuy(c.ex, amount)
         IN [om |-> [m EXCEPT !.position = Position(1, m.position.entry_price, amount)],
             ex |-> r.ex, ret |-> r.order,
             orders |-> Append(c.orders, Request("market_buy", amount, r))]
    ELSE IF signal = -1
    THEN LET r == ExecutorMarketSell(c.ex, amount)
         IN [om |-> [m EXCEPT !.position = Position(-1, m.position.entry_price, amount)],
             ex |-> r.ex, ret |-> r.order,
             orders |-> Append(c.orders, Request("market_sell", amount, r))]
    ELSE [om |-> [m EXCEPT !.position = FlatPosition],
          ex |-> c.ex, ret |-> c.order, orders |-> c.orders]

OpenPosition(m, c, signal, amount, current_price) ==
    \* c is the outcome of ClosePosition; m has the close already recorded
    IF signal = 1
    THEN LET r == ExecutorMarketBuy(c.ex, amount)
         IN [om |-> [m EXCEPT !.position = Position(1, current_price, amount)],
             ex |-> r.ex, ret |-> r.order,
             orders |-> Append(c.orders, Request("market_buy", amount, r))]
    ELSE IF signal = -1
    THEN LET r == ExecutorMarketSell(c.ex, amount)
         IN [om |-> [m EXCEPT !.position = Position(-1, current_price, amount)],
             ex |-> r.ex, ret |-> r.order,
             orders |-> Append(c.orders, Request("market_sell", amount, r))]
    ELSE [om |-> [m EXCEPT !.position = FlatPosition],
          ex |-> c.ex, ret |-> c.order, orders |-> c.orders]

execute_signal(m, ex, signal_in, amount_in, current_price) ==
    LET signal == EffectiveSignal(m, signal_in)
    IN IF NoChange(m, signal)
       THEN [om |-> m, ex |-> ex, ret |-> None, orders |-> << >>]
       ELSE LET amount == ClampAmount(m, amount_in)
                c == ClosePosition(m, ex)
                m1 == IF m.position.side # 0 THEN record_close(m, current_price)
                      ELSE m
            IN OpenPosition(m1, c, signal, amount, current_price)

close_all_keeps_position(m, ex, current_price) ==
    LET c == ClosePosition(m, ex)
        m1 == record_close(m, current_price)
        k == ExecutorCancelAllOrders(c.ex)
    IN [om |-> m1,
        ex |-> k.ex, ret |-> None, orders |-> c.orders, cancels |-> 1,
        raised |-> k.raised]

close_all(m, ex, current_price) ==
    LET c == ClosePosition(m, ex)
        m1 == record_close(m, current_price)
        k == ExecutorCancelAllOrders(c.ex)
    IN [om |-> [m1 EXCEPT !.position = FlatPosition],
        ex |-> k.ex, ret |-> None, orders |-> c.orders, cancels |-> 1,
        raised |-> k.raised]

----------------------------------------------------------------------------
(* The record of the last call *)

Call(op, signal, amount, price) ==
    [op |-> op, signal |-> signal, amount |-> amount, price |-> price,
     order |-> None, ok |-> TRUE, equity |-> 0, orders |-> << >>, cancels |-> 0]

NoCall == Call("init", 0, 0, 0)

----------------------------------------------------------------------------
(* Initial state: the objects as constructed by BTCTrader.__init__ in      *)
(* paper mode, or by the test fixture.                                     *)

InitObjects ==
    /\ executor = PaperExecutor(InitialCapital, Ptc, Ftc)
    /\ om = OrderManager(MaxPositionSize, MaxDrawdownPct, InitialCapital)
    /\ last = NoCall
    /\ pc = "idle"
    /\ tick = [signal |-> 0, current_price |-> 0, bar_price |-> 0]
    /\ tick_calls = << >>
    /\ n_ticks = 0
    /\ bt = NoBacktest

Init == InitObjects /\ mode = "api"

(* Calls made one by one on the OrderManager and its executor.  The price  *)
(* passed to update_equity, execute_signal and close_all is the caller's:  *)
(* the code never compares it with the executor's price, which only        *)
(* set_price changes.  A caller may pass the price it has set, another one *)
(* (the tests close at 51000 with the executor at 50000), or a price while *)
(* the executor still stands at its default (SignalRouter.route never      *)
(* calls set_price).                                                       *)

CallPrices == Prices

Room(m, ex) ==
    \* a trade record counts for the two calls that opened and closed its position
    Len(m.equity_curve) + 2 * Len(m.trades) + ex.order_count < MaxHistory

FrameDriver == UNCHANGED <<mode, bt, pc, tick, tick_calls, n_ticks>>

SetPrice ==
    \E p \in Prices :
        /\ executor' = set_price(executor, p)
        /\ last' = Call("set_price", 0, 0, p)
        /\ UNCHANGED om
        /\ FrameDriver

UpdateEquity ==
    \E p \in CallPrices :
        /\ Room(om, executor)
        /\ LET r == update_equity(om, executor, p)
           IN /\ om' = r.om
              /\ executor' = r.ex
              /\ last' = [Call("update_equity", 0, 0, p) EXCEPT !.equity = r.ret]
        /\ FrameDriver

CheckRisk ==
    /\ LET r == check_risk(om)
       IN /\ om' = r.om
          /\ last' = [Call("check_risk", 0, 0, 0) EXCEPT !.ok = r.ret]
    /\ UNCHANGED executor
    /\ FrameDriver

ExecuteSignal ==
    \E s \in Signals, a \in Amounts, p \in CallPrices :
        /\ Room(om, executor)
        /\ LET r == execute_signal(om, executor, s, a, p)
           IN /\ om' = r.om
              /\ executor' = r.ex
              /\ last' = [Call("execute_signal", s, a, p) EXCEPT
                             !.order = r.ret, !.orders = r.orders]
        /\ FrameDriver

CloseAll ==
    \E p \in CallPrices :
        /\ Room(om, executor)
        /\ LET r == close_all(om, executor, p)
           IN /\ om' = r.om
              /\ executor' = r.ex
              /\ last' = [Call("close_all", 0, 0, p) EXCEPT
                             !.order = r.ret, !.orders = r.orders,
                             !.cancels = r.cancels]
        /\ FrameDriver

Next ==
    \/ SetPrice
    \/ UpdateEquity
    \/ CheckRisk
    \/ ExecuteSignal
    \/ CloseAll

Spec == Init /\ [][Next]_vars

----------------------------------------------------------------------------
(* BTCTrader in paper mode.  A tick is one pass of _poll_once (mode        *)
(* "poll") or one iteration of the loop of run_on_data (mode               *)
(* "run_on_data"); the strategy's signal and the bar's close price are     *)
(* inputs.  Each OrderManager call of a tick is one step, so that the      *)
(* order of the calls is that of the program counter.                      *)

MaxLeverage == 5        \* TradingConfig.max_leverage

InitTrader ==
    /\ executor = PaperExecutor(InitialCapital, Ptc, 0)
    /\ om = OrderManager(Units * MaxLeverage, MaxDrawdownPct, InitialCapital)
    /\ last = NoCall
    /\ pc = "idle"
    /\ tick = [signal |-> 0, current_price |-> 0, bar_price |-> 0]
    /\ tick_calls = << >>
    /\ n_ticks = 0
    /\ bt = NoBacktest
    /\ mode \in {"poll", "run_on_data"}

NoShort(signal) == IF signal = -1 THEN 0 ELSE signal

TraderUpdateEquity(m, ex, t) ==
    LET r == update_equity(m, ex, t.current_price)
    IN [om |-> r.om, ex |-> r.ex, tick |-> t,
        last |-> [Call("update_equity", 0, 0, t.current_price) EXCEPT !.equity = r.ret]]

TraderCheckRisk(m, ex, t) ==
    LET r == check_risk(m)
    IN [om |-> r.om, ex |-> ex,
        tick |-> IF r.ret THEN t ELSE [t EXCEPT !.signal = 0],
        last |-> [Call("check_risk", 0, 0, 0) EXCEPT !.ok = r.ret]]

TraderExecute(m, ex, t) ==
    LET r == execute_signal(m, ex, t.signal, Units, t.current_price)
    IN [om |-> r.om, ex |-> r.ex, tick |-> t,
        last |-> [Call("execute_signal", t.signal, Units, t.current_price) EXCEPT
                     !.order = r.ret, !.orders = r.orders]]

TraderCloseAll(m, ex, price) ==
    LET r == close_all(m, ex, price)
    IN [om |-> r.om, ex |-> r.ex,
        last |-> [Call("close_all", 0, 0, price) EXCEPT
                     !.order = r.ret, !.orders = r.orders, !.cancels = r.cancels]]

(* _poll_once *)

PollSkip ==
    \* fetch_ohlcv returned nothing
    /\ mode = "poll" /\ pc = "idle" /\ n_ticks < MaxTicks
    /\ n_ticks' = n_ticks + 1
    /\ tick_calls' = << >>
    /\ UNCHANGED <<om, executor, last, mode, bt, pc, tick>>

\* the last price of a stored bar_data that is too short for the strategy;
\* 0 stands for the empty one (dropna removes the first candle, whose
\* return is NaN, so a reply of one candle leaves no row), for which
\* close_out takes the price 0
WarmupPrices == Prices \cup {0}

PollWarmup ==
    \* bar_data is stored, but it is shorter than the strategy needs
    \E p \in WarmupPrices :
        /\ mode = "poll" /\ pc = "idle" /\ n_ticks < MaxTicks
        /\ n_ticks' = n_ticks + 1
        /\ tick' = [tick EXCEPT !.bar_price = p]
        /\ tick_calls' = << >>
        /\ UNCHANGED <<om, executor, last, mode, bt, pc>>

PollFetch ==
    \E s \in Signals, p \in Prices :
        /\ mode = "poll" /\ pc = "idle" /\ n_ticks < MaxTicks
        /\ n_ticks' = n_ticks + 1
        /\ tick' = [signal |-> s, current_price |-> p, bar_price |-> p]
        /\ tick_calls' = << >>
        /\ pc' = "update_equity"
        /\ UNCHANGED <<om, executor, last, mode, bt>>

PollUpdateEquity ==
    /\ mode = "poll" /\ pc = "update_equity"
    /\ LET r == TraderUpdateEquity(om, executor, tick)
       IN om' = r.om /\ executor' = r.ex /\ last' = r.last
    /\ tick_calls' = Append(tick_calls, last'.op)
    /\ pc' = "check_risk"
    /\ UNCHANGED <<mode, bt, tick, n_ticks>>

PollCheckRisk ==
    \* check_risk, then the short remap and the executor's price update
    /\ mode = "poll" /\ pc = "check_risk"
    /\ LET r == TraderCheckRisk(om, executor, tick)
       IN /\ om' = r.om
          /\ last' = r.last
          /\ tick' = [r.tick EXCEPT !.signal = NoShort(@)]
          /\ executor' = set_price(r.ex, tick.current_price)
    /\ tick_calls' = Append(tick_calls, last'.op)
    /\ pc' = "execute_signal"
    /\ UNCHANGED <<mode, bt, n_ticks>>

PollExecute_before_check ==
    /\ mode = "poll" /\ pc \in {"check_risk", "execute_signal"}
    /\ LET r == TraderExecute(om, executor, tick)
       IN om' = r.om /\ executor' = r.ex /\ last' = r.last
    /\ tick_calls' = Append(tick_calls, last'.op)
    /\ pc' = "idle"
    /\ UNCHANGED <<mode, bt, tick, n_ticks>>

PollExecute ==
    /\ mode = "poll" /\ pc = "execute_signal"
    /\ LET r == TraderExecute(om, executor, tick)
       IN om' = r.om /\ executor' = r.ex /\ last' = r.last
    /\ tick_calls' = Append(tick_calls, last'.op)
    /\ pc' = "idle"
    /\ UNCHANGED <<mode, bt, tick, n_ticks>>

PollCloseOut ==
    \* run_polling after its last interval: close_out
    /\ mode = "poll" /\ pc = "idle" /\ n_ticks = MaxTicks
    /\ LET price == tick.bar_price
           r == TraderCloseAll(om, set_price(executor, price), price)
       IN om' = r.om /\ executor' = r.ex /\ last' = r.last
    /\ pc' = "closed"
    /\ UNCHANGED <<mode, bt, tick, tick_calls, n_ticks>>

(* run_on_data *)

RodBar ==
    \E s \in Signals, p \in Prices :
        /\ mode = "run_on_data" /\ pc = "idle" /\ n_ticks < MaxTicks
        /\ n_ticks' = n_ticks + 1
        /\ tick' = [signal |-> NoShort(s), current_price |-> p, bar_price |-> p]
        /\ executor' = set_price(executor, p)
        /\ tick_calls' = << >>
        /\ pc' = "update_equity"
        /\ UNCHANGED <<om, last, mode, bt>>

RodUpdateEquity ==
    /\ mode = "run_on_data" /\ pc = "update_equity"
    /\ LET r == TraderUpdateEquity(om, executor, tick)
       IN om' = r.om /\ executor' = r.ex /\ last' = r.last
    /\ tick_calls' = Append(tick_calls, last'.op)
    /\ pc' = "check_risk"
    /\ UNCHANGED <<mode, bt, tick, n_ticks>>

RodCheckRisk ==
    /\ mode = "run_on_data" /\ pc = "check_risk"
    /\ LET r == TraderCheckRisk(om, executor, tick)
       IN om' = r.om /\ executor' = r.ex /\ last' = r.last /\ tick' = r.tick
    /\ tick_calls' = Append(tick_calls, last'.op)
    /\ pc' = "execute_signal"
    /\ UNCHANGED <<mode, bt, n_ticks>>

RodExecute ==
    /\ mode = "run_on_data" /\ pc = "execute_signal"
    /\ LET r == TraderExecute(om, executor, tick)
       IN om' = r.om /\ executor' = r.ex /\ last' = r.last
    /\ tick_calls' = Append(tick_calls, last'.op)
    /\ pc' = "idle"
    /\ UNCHANGED <<mode, bt, tick, n_ticks>>

RodCloseOut ==
    \* after the last bar: close_all at that bar's price
    /\ mode = "run_on_data" /\ pc = "idle" /\ n_ticks = MaxTicks
    /\ LET r == TraderCloseAll(om, executor, tick.current_price)
       IN om' = r.om /\ executor' = r.ex /\ last' = r.last
    /\ pc' = "closed"
    /\ UNCHANGED <<mode, bt, tick, tick_calls, n_ticks>>

NextTrader ==
    \/ PollSkip
    \/ PollWarmup
    \/ PollFetch
    \/ PollUpdateEquity
    \/ PollCheckRisk
    \/ PollExecute
    \/ PollCloseOut
    \/ RodBar
    \/ RodUpdateEquity
    \/ RodCheckRisk
    \/ RodExecute
    \/ RodCloseOut

SpecTrader == InitTrader /\ [][NextTrader]_vars

----------------------------------------------------------------------------
(* The simulated ledger on its own: a PaperExecutor built with any cash    *)
(* and any cost model, and the calls of its interface made one by one.     *)

MaxFills == 2

LedgerCash == {0, InitialCapital}

LedgerPtc == {[num |-> 0, den |-> 1], Ptc}

LedgerFtc == {0, 4}

LedgerPrices == {4, 16}

LedgerCall(op, amount, price, reduce_only, r) ==
    [op |-> op, amount |-> amount, price |-> price,
     reduce_only |-> reduce_only, order |-> r.order]

InitLedger ==
    /\ \E c \in LedgerCash, ptc \in LedgerPtc, ftc \in LedgerFtc :
           executor = PaperExecutor(c, ptc, ftc)
    /\ om = OrderManager(MaxPositionSize, MaxDrawdownPct, InitialCapital)
    /\ last = NoCall
    /\ pc = "idle"
    /\ tick = [signal |-> 0, current_price |-> 0, bar_price |-> 0]
    /\ tick_calls = << >>
    /\ n_ticks = 0
    /\ bt = NoBacktest
    /\ mode = "ledger"

LedgerRoom == executor.order_count < MaxFills

FrameLedger == UNCHANGED <<om, mode, bt, pc, tick, tick_calls, n_ticks>>

LedgerSetPrice ==
    \E p \in LedgerPrices :
        /\ executor' = set_price(executor, p)
        /\ last' = Call("set_price", 0, 0, p)
        /\ FrameLedger

LedgerMarketBuy ==
    \E a \in Amounts :
        /\ LedgerRoom
        /\ LET r == market_buy(executor, a)
           IN /\ executor' = r.ex
              /\ last' = LedgerCall("market_buy", a, executor.last_price, FALSE, r)
        /\ FrameLedger

LedgerMarketSell ==
    \E a \in Amounts, reduce_only \in BOOLEAN :
        /\ LedgerRoom
        /\ LET r == market_sell(executor, a, reduce_only)
           IN /\ executor' = r.ex
              /\ last' = LedgerCall("market_sell", a, executor.last_price,
                                    reduce_only, r)
        /\ FrameLedger

LedgerLimitBuy ==
    \E a \in Amounts, p \in LedgerPrices :
        /\ LedgerRoom
        /\ LET r == limit_buy(executor, a, p)
           IN /\ executor' = r.ex
              /\ last' = LedgerCall("limit_buy", a, p, FALSE, r)
        /\ FrameLedger

LedgerLimitSell ==
    \E a \in Amounts, p \in LedgerPrices :
        /\ LedgerRoom
        /\ LET r == limit_sell(executor, a, p)
           IN /\ executor' = r.ex
              /\ last' = LedgerCall("limit_sell", a, p, FALSE, r)
        /\ FrameLedger

NextLedger ==
    \/ LedgerSetPrice
    \/ LedgerMarketBuy
    \/ LedgerMarketSell
    \/ LedgerLimitBuy
    \/ LedgerLimitSell

SpecLedger == InitLedger /\ [][NextLedger]_vars

----------------------------------------------------------------------------
(* Calls made one by one on a MEXCExecutor and on an OrderManager built    *)
(* over it.  A call of _place_order is not one step: it waits in each      *)
(* create_order request and in the sleep after a transient error, and the  *)
(* SIGINT/SIGTERM handler of the deployment scripts (close_out, then       *)
(* sys.exit) may run at any of these points.  The call is followed pass by *)
(* pass of its retry loop; pc = "create_order" says that a call is in      *)
(* progress and tick holds it.  SystemExit is caught neither in            *)
(* _place_order nor in the loop of run_polling, so an interrupted call     *)
(* never returns.  main installs the handler before it builds the         *)
(* BTCTrader: pc = "main" is main between the two, _trader still None, and *)
(* a signal then ends in sys.exit alone.                                   *)

LiveAmounts == {1, 2}

LivePrices == {16}

\* the price close_out reads: the last one of bar_data, which the polls
\* before it have stored, or 0 while bar_data is empty
CloseOutPrices == Prices \cup {0}

Transient == {"NetworkError", "ExchangeNotAvailable"}

\* what happens to one attempt at the exchange.  A network error says
\* nothing about the order: the request may have been lost, or the answer
\* to a request the exchange accepted.  params carries no client order id,
\* so the exchange takes the request of each retry as a new order.
ExchangeOutcomes == OrderReplies \cup {"NetworkErrorAfterAccept"}

\* what create_order returns or raises at the client
ClientReply(outcome) ==
    IF outcome = "NetworkErrorAfterAccept" THEN "NetworkError" ELSE outcome

\* whether the exchange has the order on its books
AcceptedByExchange(outcome) == outcome \in {"ok", "NetworkErrorAfterAccept"}

\* the orders the exchange accepted among the attempts made
accepted_orders(outcomes, attempts) ==
    Cardinality({i \in 1..attempts : AcceptedByExchange(outcomes[i])})

IdleTick == [signal |-> 0, current_price |-> 0, bar_price |-> 0]

\* a call of _place_order that has passed the minimum-amount check
PlaceOrderCall(op, side, order_type, amount, price, reduce_only, outcomes, ex) ==
    [op |-> op, amount |-> amount, price |-> price, reduce_only |-> reduce_only,
     outcomes |-> outcomes,
     request |-> order_request(ex, side, order_type, amount, price, reduce_only),
     attempt |-> 0,                       \* the 0-based attempt that comes next
     calls |-> ex.create_order_calls,     \* the counters when the call began
     slept |-> ex.slept]

\* last while a call is in progress: the record of the call is made when it returns
InProgress == [op |-> "in_progress"]

\* the record of a call that has returned
LiveCall(t, order, attempts, ex) ==
    [op |-> t.op, amount |-> t.amount, price |-> t.price,
     reduce_only |-> t.reduce_only,
     outcomes |-> t.outcomes,
     replies |-> [i \in DOMAIN t.outcomes |-> ClientReply(t.outcomes[i])],
     order |-> order, attempts |-> attempts,
     calls |-> ex.create_order_calls - t.calls,
     slept |-> ex.slept - t.slept,
     accepted |-> accepted_orders(t.outcomes, attempts)]

InitLive ==
    /\ \E trading_type \in {"spot", "swap"}, market \in LiveMarkets :
           executor = MEXCExecutor(trading_type, market)
    /\ om = OrderManager(MaxPositionSize, MaxDrawdownPct, InitialCapital)
    /\ last = NoCall
    /\ pc = "main"
    /\ tick = IdleTick
    /\ tick_calls = << >>
    /\ n_ticks = 0
    /\ bt = NoBacktest
    /\ mode = "live"

\* main: _trader = BTCTrader(...), run_polling.  BTCTrader.__init__ asks the
\* balance of the account and builds the OrderManager on its free USDT, or
\* on the configured capital when it has none or the query fails
LiveMain ==
    \E reply \in BalanceReplies, total \in LiveBalances :
        /\ pc = "main"
        /\ LET bal == mexc_get_balance(executor, reply, total).ret
               real_usdt == IF bal = EmptyDict THEN 0 ELSE bal.USDT_free
           IN om' = OrderManager(Units * MaxLeverage, MaxDrawdownPct,
                                 IF real_usdt > 0 THEN real_usdt ELSE InitialCapital)
        /\ pc' = "idle"
        /\ UNCHANGED <<executor, last, mode, bt, tick, tick_calls, n_ticks>>

MaxLiveCalls == 1

LiveRoom == pc = "idle" /\ executor.create_order_calls < MaxLiveCalls

FrameLive == UNCHANGED <<mode, bt, pc, tick, tick_calls, n_ticks>>

\* what the exchange answers to the attempts of one call; past its first
\* answer that is not a transient error it would accept the order
LiveReplies ==
    {f \in [1..MaxRetries -> OrderReplies] :
        \A i, j \in 1..MaxRetries :
            (i < j /\ f[i] \notin Transient) => f[j] = "ok"}

\* _place_order up to its loop: below the minimum it returns None at once
PlaceOrderBegin(op, side, order_type, amount, price, reduce_only, outcomes) ==
    LET t == PlaceOrderCall(op, side, order_type, amount, price, reduce_only,
                            outcomes, executor)
    IN /\ IF BelowMinimum(executor, amount)
          THEN /\ last' = LiveCall(t, None, 0, executor)
               /\ UNCHANGED <<pc, tick>>
          ELSE /\ pc' = "create_order"
               /\ tick' = t
               /\ last' = InProgress
       /\ UNCHANGED <<om, executor, mode, bt, tick_calls, n_ticks>>

LiveMarketBuy ==
    \E a \in LiveAmounts, reduce_only \in BOOLEAN, replies \in LiveReplies :
        /\ mode = "live" /\ LiveRoom
        /\ PlaceOrderBegin("market_buy", "buy", "market", a, None, reduce_only, replies)

LiveMarketSell ==
    \E a \in LiveAmounts, reduce_only \in BOOLEAN, replies \in LiveReplies :
        /\ mode = "live" /\ LiveRoom
        /\ PlaceOrderBegin("market_sell", "sell", "market", a, None, reduce_only, replies)

LiveLimitBuy ==
    \E a \in LiveAmounts, p \in LivePrices, replies \in LiveReplies :
        /\ mode = "live" /\ LiveRoom
        /\ PlaceOrderBegin("limit_buy", "buy", "limit", a, Some(p), FALSE, replies)

LiveLimitSell ==
    \E a \in LiveAmounts, p \in LivePrices, replies \in LiveReplies :
        /\ mode = "live" /\ LiveRoom
        /\ PlaceOrderBegin("limit_sell", "sell", "limit", a, Some(p), FALSE, replies)

\* one pass of the retry loop of the call in progress
LiveCreateOrder ==
    /\ pc = "create_order"
    /\ LET r == create_order_attempt(executor, tick.request,
                                     ClientReply(tick.outcomes[tick.attempt + 1]),
                                     tick.attempt)
       IN /\ executor' = r.ex
          /\ IF r.done
             THEN /\ last' = LiveCall(tick, r.order, tick.attempt + 1, r.ex)
                  /\ pc' = "idle"
                  /\ tick' = IdleTick
             ELSE /\ tick' = [tick EXCEPT !.attempt = @ + 1]
                  /\ UNCHANGED <<last, pc>>
    /\ UNCHANGED <<om, mode, bt, tick_calls, n_ticks>>

(* An OrderManager over a MEXCExecutor: execute_signal and close_all, with  *)
(* the answers of the exchange to their orders and to cancel_all_orders.   *)

CancelReplies == {"ok", "NetworkError", "ExchangeError"}

\* one answer of each kind: accepted, refused for good, transient failure
ManagerReplies == {"ok", "InsufficientFunds", "NetworkError"}

WithCancelReply(ex, cancel_reply) == [ex EXCEPT !.cancel_reply = cancel_reply]

MaxSignals == 2

\* the signals delivered so far
SignalsOf(t) == IF "signals" \in DOMAIN t THEN t.signals ELSE 0

LiveManagerRoom ==
    /\ pc = "idle"
    /\ Len(om.trades) + executor.create_order_calls < MaxHistory

(* execute_signal and close_all are followed statement by statement, and   *)
(* each order they place pass by pass of its retry loop: pc is the         *)
(* statement that comes next and tick holds the locals of the call.        *)

ManagerCall(op, signal_in, amount_in, signal, amount, price, m) ==
    [op |-> op, signal_in |-> signal_in, amount_in |-> amount_in,
     signal |-> signal, amount |-> amount, price |-> price,
     attempt |-> 0,                 \* the attempt that comes next in _place_order
     order |-> None,                \* the local variable order
     orders |-> << >>,              \* the requests sent so far
     position |-> m.position,       \* the manager when the call began
     trades |-> Len(m.trades)]

LiveExecuteSignal ==
    \E s \in Signals, a \in LiveAmounts, p \in LivePrices :
        /\ mode = "live" /\ LiveManagerRoom
        /\ LET signal == EffectiveSignal(om, s)
           IN IF NoChange(om, signal)
              THEN /\ last' = Call("execute_signal", s, a, p)
                   /\ UNCHANGED <<executor, pc, tick>>
              ELSE /\ tick' = ManagerCall("execute_signal", s, a, signal,
                                          ClampAmount(om, a), p, om)
                   /\ pc' = "es_close"
                   /\ last' = InProgress
                   /\ UNCHANGED executor
        /\ UNCHANGED <<om, mode, bt, tick_calls, n_ticks>>

LiveCloseAll ==
    \E p \in LivePrices :
        /\ mode = "live" /\ LiveManagerRoom
        /\ tick' = ManagerCall("close_all", 0, 0, 0, 0, p, om)
        /\ pc' = "ca_close"
        /\ last' = InProgress
        /\ UNCHANGED <<om, executor, mode, bt, tick_calls, n_ticks>>

\* the order placed at the statement pc: none, or its method and amount
OrderAt(stage, m, t) ==
    IF stage \in {"es_close", "ca_close"}
    THEN IF m.position.side = 1 THEN Some([method |-> "market_sell", side |-> "sell",
                                           amount |-> m.position.amount])
         ELSE IF m.position.side = -1 THEN Some([method |-> "market_buy", side |-> "buy",
                                                 amount |-> m.position.amount])
         ELSE None
    ELSE IF t.signal = 1 THEN Some([method |-> "market_buy", side |-> "buy",
                                    amount |-> t.amount])
    ELSE IF t.signal = -1 THEN Some([method |-> "market_sell", side |-> "sell",
                                     amount |-> t.amount])
    ELSE None

AfterOrder(stage) ==
    IF stage = "es_close" THEN "es_record"
    ELSE IF stage = "es_open" THEN "es_assign"
    ELSE "ca_record"

\* market_buy / market_sell returned result: the manager's locals after it
OrderPlaced(t, o, result) ==
    [t EXCEPT !.attempt = 0, !.order = result.order,
              !.orders = Append(@, Request(o.method, o.amount, result))]

\* the closing or the opening order: nothing to place, a refusal below the
\* minimum amount, or one pass of the retry loop with the exchange's answer
LiveOrder ==
    /\ pc \in {"es_close", "es_open", "ca_close"}
    /\ LET o == OrderAt(pc, om, tick)
       IN IF o = None
          THEN /\ pc' = AfterOrder(pc)
               /\ UNCHANGED <<executor, tick>>
          ELSE IF BelowMinimum(executor, o[1].amount)
          THEN /\ pc' = AfterOrder(pc)
               /\ tick' = OrderPlaced(tick, o[1], [order |-> None])
               /\ UNCHANGED executor
          ELSE \E reply \in ManagerReplies :
               LET r == create_order_attempt(
                            executor,
                            order_request(executor, o[1].side, "market",
                                          o[1].amount, None, FALSE),
                            reply, tick.attempt)
               IN /\ executor' = r.ex
                  /\ IF r.done
                     THEN /\ pc' = AfterOrder(pc)
                          /\ tick' = OrderPlaced(tick, o[1], r)
                     ELSE /\ tick' = [tick EXCEPT !.attempt = @ + 1]
                          /\ UNCHANGED pc
    /\ UNCHANGED <<om, last, mode, bt, tick_calls, n_ticks>>

\* _record_close
LiveRecord ==
    /\ pc \in {"es_record", "ca_record"}
    /\ om' = record_close(om, tick.price)
    /\ pc' = IF pc = "es_record" THEN "es_open" ELSE "ca_reset"
    /\ UNCHANGED <<executor, last, mode, bt, tick, tick_calls, n_ticks>>

\* execute_signal: self.position = Position(...), return order
LiveAssign ==
    /\ pc = "es_assign"
    /\ om' = [om EXCEPT !.position =
                 IF tick.signal = 0 THEN FlatPosition
                 ELSE Position(tick.signal, tick.price, tick.amount)]
    /\ last' = [Call("execute_signal", tick.signal_in, tick.amount_in, tick.price)
                   EXCEPT !.order = tick.order, !.orders = tick.orders]
    /\ pc' = "idle"
    /\ tick' = IdleTick
    /\ UNCHANGED <<executor, mode, bt, tick_calls, n_ticks>>

\* close_all: self.position = Position()
LiveReset ==
    /\ pc = "ca_reset"
    /\ om' = [om EXCEPT !.position = FlatPosition]
    /\ pc' = "ca_cancel"
    /\ UNCHANGED <<executor, last, mode, bt, tick, tick_calls, n_ticks>>

\* close_all: cancel_all_orders, return; the handler then leaves through
\* sys.exit
LiveCancel ==
    /\ pc = "ca_cancel"
    /\ \E cancel_reply \in CancelReplies :
        LET k == ExecutorCancelAllOrders(WithCancelReply(executor, cancel_reply))
        IN /\ executor' = WithCancelReply(k.ex, "ok")
           /\ last' = [op |-> tick.op, price |-> tick.price,
                       orders |-> tick.orders, cancels |-> 1,
                       cancel_reply |-> cancel_reply, raised |-> k.raised,
                       position |-> tick.position, trades |-> tick.trades,
                       signals |-> SignalsOf(tick)]
    /\ pc' = IF tick.op = "shutdown" THEN "exited" ELSE "idle"
    /\ tick' = IdleTick
    /\ UNCHANGED <<om, mode, bt, tick_calls, n_ticks>>

\* The handler of SIGINT and SIGTERM: sys.exit alone while _trader is None,
\* otherwise close_out, which is close_all in live mode at the last price of
\* bar_data, then sys.exit.  It runs between two calls or during one, the
\* handler's own close_all included (bar_data is then the one the first
\* handler read), and the code it interrupts never resumes.
LiveShutdown ==
    /\ pc # "exited"
    /\ SignalsOf(tick) < MaxSignals
    /\ IF pc = "main"
       THEN /\ pc' = "exited"
            /\ last' = [op |-> "sys.exit", cancels |-> 0]
            /\ UNCHANGED tick
       ELSE \E p \in CloseOutPrices :
               /\ SignalsOf(tick) > 0 => p = tick.price
               /\ tick' = ManagerCall("shutdown", 0, 0, 0, 0, p, om)
                              @@ [signals |-> SignalsOf(tick) + 1]
               /\ pc' = "ca_close"
               /\ last' = InProgress
    /\ UNCHANGED <<om, executor, mode, bt, tick_calls, n_ticks>>

NextLive ==
    \/ LiveMain
    \/ LiveMarketBuy
    \/ LiveMarketSell
    \/ LiveLimitBuy
    \/ LiveLimitSell
    \/ LiveCreateOrder
    \/ LiveShutdown
    \/ LiveOrder
    \/ LiveRecord
    \/ LiveReset
    \/ LiveCancel

SpecLive == InitLive /\ [][NextLive]_vars

(* An OrderManager over a MEXCExecutor: update_equity, whose balance query  *)
(* the exchange answers or fails.                                          *)

LiveGetBalance ==
    \E reply \in BalanceReplies, total \in LiveBalances :
        /\ pc = "idle"
        /\ LET b == mexc_get_balance(executor, reply, total)
           IN last' = [op |-> "get_balance", reply |-> reply,
                       raised |-> b.raised, balance |-> b.ret]
        /\ UNCHANGED <<om, executor>>
        /\ FrameLive

LiveUpdateEquity ==
    \E p \in LivePrices, reply \in BalanceReplies, total \in LiveBalances :
        /\ pc = "idle"
        /\ Len(om.equity_curve) < MaxHistory
        /\ LET b == mexc_get_balance(executor, reply, total)
               r == update_equity_with(om, b.ret, p)
           IN /\ om' = r.om
              /\ last' = [op |-> "update_equity", reply |-> reply,
                          raised |-> b.raised, balance |-> b.ret,
                          equity |-> r.ret]
        /\ UNCHANGED executor
        /\ FrameLive

NextLiveEquity ==
    \/ LiveMain
    \/ LiveGetBalance
    \/ LiveUpdateEquity

SpecLiveEquity == InitLive /\ [][NextLiveEquity]_vars

(* execute_signal and close_all over a MEXCExecutor, step by step.         *)

NextLiveManager ==
    \/ LiveMain
    \/ LiveExecuteSignal
    \/ LiveCloseAll
    \/ LiveOrder
    \/ LiveRecord
    \/ LiveAssign
    \/ LiveReset
    \/ LiveCancel
    \/ LiveShutdown

SpecLiveManager == InitLive /\ [][NextLiveManager]_vars

(* Calls whose amount is any number, negative ones included: the amount   *)
(* is a float parameter that no method validates.                          *)

AnyAmounts == {-1} \cup Amounts

InitAnyAmount == InitObjects /\ mode = "any_amount"

AnyAmountRoom == Len(om.trades) + executor.order_count < MaxFills

ExecuteSignalAny ==
    \E s \in Signals, a \in AnyAmounts, p \in CallPrices :
        /\ AnyAmountRoom
        /\ LET r == execute_signal(om, executor, s, a, p)
           IN /\ om' = r.om
              /\ executor' = r.ex
              /\ last' = [Call("execute_signal", s, a, p) EXCEPT
                             !.order = r.ret, !.orders = r.orders]
        /\ FrameDriver

MarketBuyAny ==
    \E a \in AnyAmounts :
        /\ AnyAmountRoom
        /\ LET r == market_buy(executor, a)
           IN /\ executor' = r.ex
              /\ last' = LedgerCall("market_buy", a, executor.last_price, FALSE, r)
        /\ UNCHANGED om
        /\ FrameDriver

MarketSellAny ==
    \E a \in AnyAmounts :
        /\ AnyAmountRoom
        /\ LET r == market_sell(executor, a, FALSE)
           IN /\ executor' = r.ex
              /\ last' = LedgerCall("market_sell", a, executor.last_price, FALSE, r)
        /\ UNCHANGED om
        /\ FrameDriver

NextAnyAmount ==
    \/ SetPrice
    \/ ExecuteSignalAny
    \/ MarketBuyAny
    \/ MarketSellAny

SpecAnyAmount == InitAnyAmount /\ [][NextAnyAmount]_vars

----------------------------------------------------------------------------
(* Event-based backtest engines (BacktestBase, BacktestLongOnly,           *)
(* BacktestLongShort).  The data and the strategy's signal series are      *)
(* fixed when the engine is built; run() walks the bars in order, then     *)
(* closes what is left and returns the summary.  Bars are numbered from 1  *)
(* here and from 0 in the code.                                            *)

MaxBars == 4

BtEngines == {"long_only", "long_short"}
BtPrices == {4, 24}
BtCapitals == {16, InitialCapital}
BtFtc == {0, 4}
BtPtc == {[num |-> 0, den |-> 1], Ptc}

Max(a, b) == IF a > b THEN a ELSE b

\* int(num / den) of Python: the fraction cut toward zero
IntPart(num, den) == IF num >= 0 THEN num \div den ELSE -((-num) \div den)

\* max(1, int(capital * 0.95 / price))
unit_size(capital, price) == Max(1, IntPart(capital * 19, 20 * price))

\* BacktestBase.__init__, and the part of run() that precedes the loop
Backtest(engine, prices, signals, initial_capital, ftc, ptc) ==
    [engine |-> engine, prices |-> prices, signals |-> signals,
     initial_capital |-> initial_capital, ftc |-> ftc, ptc |-> ptc,
     position |-> 0, trades |-> 0, cash |-> initial_capital,
     portfolio_values |-> << >>, trade_log |-> << >>,
     unit_size |-> IF engine = "long_short"
                   THEN Some(unit_size(initial_capital, prices[1]))
                   ELSE None,
     bar |-> 0, phase |-> "loop", summary |-> None]

portfolio_value_cash_only(b, bar) == b.cash

portfolio_value(b, bar) == b.cash + b.position * b.prices[bar]

execute_trade_uncounted(b, bar, units) ==
    LET price == b.prices[bar]
        cost == units * price
        tc == b.ftc + Times(Abs(cost), b.ptc)
        cash == b.cash - (cost + tc)
        position == b.position + units
    IN [b EXCEPT !.cash = cash, !.position = position,
                 !.trade_log = Append(@, [bar |-> bar,
                                          action |-> IF units > 0 THEN "BUY" ELSE "SELL",
                                          units |-> Abs(units), price |-> price, tc |-> tc,
                                          cash |-> cash, position |-> position])]

execute_trade_rebate(b, bar, units) ==
    LET price == b.prices[bar]
        cost == units * price
        tc == b.ftc + Times(Abs(cost), b.ptc)
        cash == b.cash - (cost - tc)
        position == b.position + units
    IN [b EXCEPT !.cash = cash, !.position = position, !.trades = @ + 1,
                 !.trade_log = Append(@, [bar |-> bar,
                                          action |-> IF units > 0 THEN "BUY" ELSE "SELL",
                                          units |-> Abs(units), price |-> price, tc |-> tc,
                                          cash |-> cash, position |-> position])]

execute_trade_unlogged(b, bar, units) ==
    LET price == b.prices[bar]
        cost == units * price
        tc == b.ftc + Times(Abs(cost), b.ptc)
        cash == b.cash - (cost + tc)
        position == b.position + units
    IN [b EXCEPT !.cash = cash, !.position = position, !.trades = @ + 1]

execute_trade(b, bar, units) ==
    LET price == b.prices[bar]
        cost == units * price
        tc == b.ftc + Times(Abs(cost), b.ptc)
        cash == b.cash - (cost + tc)
        position == b.position + units
    IN [b EXCEPT !.cash = cash, !.position = position, !.trades = @ + 1,
                 !.trade_log = Append(@, [bar |-> bar,
                                          action |-> IF units > 0 THEN "BUY" ELSE "SELL",
                                          units |-> Abs(units), price |-> price, tc |-> tc,
                                          cash |-> cash, position |-> position])]

close_position(b, bar) ==
    IF b.position # 0 THEN execute_trade(b, bar, -b.position) ELSE b

\* signals.iloc[bar] if bar < len(signals) else 0
signal_at(b, bar) == IF bar <= Len(b.signals) THEN b.signals[bar] ELSE 0

long_only_bar_pyramiding(b, bar) ==
    LET sig == signal_at(b, bar)
        target_position == IF sig > 0 THEN 1 ELSE 0
        current_units == IF b.position > 0 THEN 1 ELSE 0
    IN IF target_position = 1
       THEN execute_trade(b, bar, unit_size(b.cash, b.prices[bar]))
       ELSE IF target_position = 0 /\ current_units = 1
       THEN close_position(b, bar)
       ELSE b

\* the body of the loop of BacktestLongOnly.run, up to the trade
long_only_bar(b, bar) ==
    LET sig == signal_at(b, bar)
        target_position == IF sig > 0 THEN 1 ELSE 0
        current_units == IF b.position > 0 THEN 1 ELSE 0
    IN IF target_position = 1 /\ current_units = 0
       THEN execute_trade(b, bar, unit_size(b.cash, b.prices[bar]))
       ELSE IF target_position = 0 /\ current_units = 1
       THEN close_position(b, bar)
       ELSE b

long_short_bar_resized(b, bar) ==
    LET sig == signal_at(b, bar)
        target_units == sig * unit_size(b.cash, b.prices[bar])
        diff == target_units - b.position
    IN IF diff # 0 THEN execute_trade(b, bar, diff) ELSE b

\* the body of the loop of BacktestLongShort.run, up to the trade
long_short_bar(b, bar) ==
    LET sig == signal_at(b, bar)
        target_units == sig * b.unit_size[1]
        diff == target_units - b.position
    IN IF diff # 0 THEN execute_trade(b, bar, diff) ELSE b

\* one pass of the loop of run(): the trade, then the portfolio value
run_bar(b) ==
    LET bar == b.bar + 1
        traded == IF b.engine = "long_only" THEN long_only_bar(b, bar)
                                            ELSE long_short_bar(b, bar)
    IN [traded EXCEPT !.portfolio_values = Append(@, portfolio_value(traded, bar)),
                      !.bar = bar]

\* BacktestBase.summary: the entries the model follows
summary(b) ==
    IF Len(b.portfolio_values) = 0 THEN EmptyDict
    ELSE [final_value |-> Last(b.portfolio_values),
          n_trades |-> b.trades,
          n_bars |-> Len(b.portfolio_values)]

\* open(b): the test run() makes after the loop
StillOpen(b) == IF b.engine = "long_only" THEN b.position > 0 ELSE b.position # 0

run_finish_appending(b) ==
    LET n == Len(b.prices)
        closed == IF StillOpen(b) THEN close_position(b, n) ELSE b
        valued == IF StillOpen(b)
                  THEN [closed EXCEPT !.portfolio_values = Append(@, portfolio_value(closed, n))]
                  ELSE closed
    IN [valued EXCEPT !.phase = "done", !.summary = Some(summary(valued))]

\* the end of run(): the forced close, the last value replaced, summary()
run_finish(b) ==
    LET n == Len(b.prices)
        closed == IF StillOpen(b) THEN close_position(b, n) ELSE b
        valued == IF StillOpen(b)
                  THEN [closed EXCEPT !.portfolio_values[n] = portfolio_value(closed, n)]
                  ELSE closed
    IN [valued EXCEPT !.phase = "done", !.summary = Some(summary(valued))]

\* run() from the state b to its return
RECURSIVE run(_)
run(b) ==
    IF b.phase = "done" THEN b
    ELSE IF b.bar < Len(b.prices) THEN run(run_bar(b))
    ELSE run(run_finish(b))

BarSeqs == UNION {[1..n -> BtPrices] : n \in 1..MaxBars}

\* the strategy's series has one signal per bar, or stops one bar early
SignalSeqs(n) == [1..n -> Signals] \cup [1..(n - 1) -> Signals]

InitBacktest ==
    /\ executor = PaperExecutor(InitialCapital, Ptc, Ftc)
    /\ om = OrderManager(MaxPositionSize, MaxDrawdownPct, InitialCapital)
    /\ last = NoCall
    /\ pc = "idle"
    /\ tick = [signal |-> 0, current_price |-> 0, bar_price |-> 0]
    /\ tick_calls = << >>
    /\ n_ticks = 0
    /\ mode = "backtest"
    /\ \E engine \in BtEngines, prices \in BarSeqs, capital \in BtCapitals,
          ftc \in BtFtc, ptc \in BtPtc :
          \E signals \in SignalSeqs(Len(prices)) :
             bt = Backtest(engine, prices, signals, capital, ftc, ptc)

FrameBacktest == UNCHANGED <<om, executor, last, mode, pc, tick, tick_calls, n_ticks>>

BtBar ==
    /\ mode = "backtest" /\ bt.phase = "loop" /\ bt.bar < Len(bt.prices)
    /\ bt' = run_bar(bt)
    /\ FrameBacktest

BtFinish ==
    /\ mode = "backtest" /\ bt.phase = "loop" /\ bt.bar = Len(bt.prices)
    /\ bt' = run_finish(bt)
    /\ FrameBacktest

NextBacktest ==
    \/ BtBar
    \/ BtFinish

SpecBacktest == InitBacktest /\ [][NextBacktest]_vars

----------------------------------------------------------------------------
(* The long-only backtest engine and BTCTrader.run_on_data in paper mode,  *)
(* fed the same bars and the same signal for each bar, advanced bar by bar *)
(* side by side.  The strategy needs no warm-up history here.              *)

\* one iteration of the loop of run_on_data in paper mode
run_on_data_bar(m, ex, signal, current_price) ==
    LET priced == set_price(ex, current_price)
        t == [signal |-> NoShort(signal), current_price |-> current_price,
              bar_price |-> current_price]
        u == TraderUpdateEquity(m, priced, t)
        c == TraderCheckRisk(u.om, u.ex, u.tick)
    IN TraderExecute(c.om, c.ex, c.tick)

InitRefinement ==
    /\ executor = PaperExecutor(InitialCapital, Ptc, 0)
    /\ om = OrderManager(Units * MaxLeverage, MaxDrawdownPct, InitialCapital)
    /\ last = NoCall
    /\ pc = "idle"
    /\ tick = [signal |-> 0, current_price |-> 0, bar_price |-> 0]
    /\ tick_calls = << >>
    /\ n_ticks = 0
    /\ mode = "refinement"
    /\ \E prices \in BarSeqs :
          \E signals \in [1..Len(prices) -> Signals] :
             bt = Backtest("long_only", prices, signals, InitialCapital, Ftc, Ptc)

RefBar ==
    /\ mode = "refinement" /\ bt.phase = "loop" /\ bt.bar < Len(bt.prices)
    /\ bt' = run_bar(bt)
    /\ LET r == run_on_data_bar(om, executor, bt.signals[bt.bar + 1], bt.prices[bt.bar + 1])
       IN om' = r.om /\ executor' = r.ex /\ last' = r.last /\ tick' = r.tick
    /\ n_ticks' = n_ticks + 1
    /\ UNCHANGED <<mode, pc, tick_calls>>

RefFinish ==
    /\ mode = "refinement" /\ bt.phase = "loop" /\ bt.bar = Len(bt.prices)
    /\ bt' = run_finish(bt)
    /\ LET r == TraderCloseAll(om, executor, Last(bt.prices))
       IN om' = r.om /\ executor' = r.ex /\ last' = r.last
    /\ pc' = "closed"
    /\ UNCHANGED <<mode, tick, tick_calls, n_ticks>>

NextRefinement ==
    \/ RefBar
    \/ RefFinish

SpecRefinement == InitRefinement /\ [][NextRefinement]_vars

----------------------------------------------------------------------------
(* Vectorized SMA crossover backtester (SMAVectorBacktester).  Prices are  *)
(* powers of 2, so that a log return is a whole multiple of ln 2; a value  *)
(* of the returns columns is kept as ln2 * ln 2 + rat, with rat a          *)
(* fraction: ln 2 is irrational, so two such values are equal exactly when *)
(* both parts are.                                                         *)

VecPrices == {4, 8, 16}
VecWindows == {<<1, 2>>, <<1, 3>>, <<2, 3>>}
VecPtc == {[num |-> 0, den |-> 1], Ptc}

\* log2 of a price of VecPrices
Log2(p) == CASE p = 4 -> 2 [] p = 8 -> 3 [] p = 16 -> 4

\* np.log(price / price.shift(1)), in units of ln 2
LogReturn(price, previous) == Log2(price) - Log2(previous)

Value(ln2, num, den) == [ln2 |-> ln2, rat |-> [num |-> num, den |-> den]]

ValueEq(a, b) == a.ln2 = b.ln2 /\ a.rat.num * b.rat.den = b.rat.num * a.rat.den

RECURSIVE SumOver(_, _, _)
SumOver(s, from, to) == IF from > to THEN 0 ELSE s[to] + SumOver(s, from, to - 1)

\* SMAVectorBacktester.__init__
SMAVectorBacktester(prices, sma_short, sma_long, ptc) ==
    [engine |-> "sma_vector", prices |-> prices, sma_short |-> sma_short,
     sma_long |-> sma_long, ptc |-> ptc, results |-> None]

\* _prepare_data: the rows that dropna keeps, with returns and the two rolling means
prepare_data(b) ==
    LET first == Max(2, Max(b.sma_short, b.sma_long))
        n == Len(b.prices)
        row(i) == [price |-> b.prices[i],
                   returns |-> LogReturn(b.prices[i], b.prices[i - 1]),
                   SMA_short |-> [num |-> SumOver(b.prices, i - b.sma_short + 1, i),
                                  den |-> b.sma_short],
                   SMA_long |-> [num |-> SumOver(b.prices, i - b.sma_long + 1, i),
                                 den |-> b.sma_long]]
    IN IF n < first THEN << >> ELSE [j \in 1..(n - first + 1) |-> row(first + j - 1)]

\* np.where(SMA_short > SMA_long, 1, -1) of one row
raw_position(row) ==
    IF row.SMA_short.num * row.SMA_long.den > row.SMA_long.num * row.SMA_short.den
    THEN 1 ELSE -1

sma_run_unit_cost(b) ==
    LET data == prepare_data(b)
        position(j) == IF j = 1 THEN 0 ELSE raw_position(data[j - 1])
        trades(j) == IF j = 1 THEN 0 ELSE Abs(position(j) - position(j - 1))
        result(j) == [returns |-> data[j].returns,
                      position |-> position(j),
                      strategy |-> Value(position(j) * data[j].returns, 0, 1),
                      trades |-> trades(j),
                      strategy_net |-> Value(position(j) * data[j].returns, -trades(j), 1)]
        rows == [j \in 1..Len(data) |-> result(j)]
        returns == [j \in 1..Len(data) |-> rows[j].returns]
        net_ln2 == [j \in 1..Len(data) |-> rows[j].strategy_net.ln2]
        net_num == [j \in 1..Len(data) |-> rows[j].strategy_net.rat.num]
        cumulative(j) == [log_creturns |-> Value(SumOver(returns, 1, j), 0, 1),
                          log_cstrategy |-> Value(SumOver(net_ln2, 1, j),
                                                  SumOver(net_num, 1, j), 1)]
    IN [b EXCEPT !.results = Some([j \in 1..Len(data) |-> rows[j] @@ cumulative(j)])]

\* run(): position shifted by one row, gross and net strategy returns, and
\* the running sums whose exponentials are the columns creturns and cstrategy
sma_run(b) ==
    LET data == prepare_data(b)
        position(j) == IF j = 1 THEN 0 ELSE raw_position(data[j - 1])
        trades(j) == IF j = 1 THEN 0 ELSE Abs(position(j) - position(j - 1))
        result(j) == [returns |-> data[j].returns,
                      position |-> position(j),
                      strategy |-> Value(position(j) * data[j].returns, 0, 1),
                      trades |-> trades(j),
                      strategy_net |-> Value(position(j) * data[j].returns,
                                             -(trades(j) * b.ptc.num), b.ptc.den)]
        rows == [j \in 1..Len(data) |-> result(j)]
        returns == [j \in 1..Len(data) |-> rows[j].returns]
        net_ln2 == [j \in 1..Len(data) |-> rows[j].strategy_net.ln2]
        net_num == [j \in 1..Len(data) |-> rows[j].strategy_net.rat.num]
        cumulative(j) == [log_creturns |-> Value(SumOver(returns, 1, j), 0, 1),
                          log_cstrategy |-> Value(SumOver(net_ln2, 1, j),
                                                  SumOver(net_num, 1, j), b.ptc.den)]
    IN [b EXCEPT !.results = Some([j \in 1..Len(data) |-> rows[j] @@ cumulative(j)])]

VecBarSeqs == UNION {[1..n -> VecPrices] : n \in 1..MaxBars}

InitVectorized ==
    /\ executor = PaperExecutor(InitialCapital, Ptc, Ftc)
    /\ om = OrderManager(MaxPositionSize, MaxDrawdownPct, InitialCapital)
    /\ last = NoCall
    /\ pc = "idle"
    /\ tick = [signal |-> 0, current_price |-> 0, bar_price |-> 0]
    /\ tick_calls = << >>
    /\ n_ticks = 0
    /\ mode = "vectorized"
    /\ \E prices \in VecBarSeqs, w \in VecWindows, ptc \in VecPtc :
          bt = SMAVectorBacktester(prices, w[1], w[2], ptc)

VecRun ==
    /\ mode = "vectorized" /\ bt.results = None
    /\ bt' = sma_run(bt)
    /\ FrameBacktest

NextVectorized == VecRun

SpecVectorized == InitVectorized /\ [][NextVectorized]_vars

----------------------------------------------------------------------------
(* backtesting.performance.optimal_leverage.  Its arguments and its result *)
(* are Python floats, IEEE 754 binary64 numbers: the subtraction and the   *)
(* division return the float nearest to the exact result, a tie going to   *)
(* the even mantissa.  sigma ** 2 is the C library's pow, which is not     *)
(* held to that rule: it returns a float next to the exact power, the      *)
(* nearest one or its neighbour on the other side, and which of the two    *)
(* depends on the library of the build.  A float is the record             *)
(* [sign, mant, exp] of value sign * mant * 2^exp whose mantissa has       *)
(* exactly 53 binary digits (0.0 has none).  A natural number of any size  *)
(* is the sequence of its digits in base 2^15, the least significant first *)
(* and the most significant not 0.  The arguments explored stay far from   *)
(* the overflow and underflow thresholds of the format.                    *)

Radix == 2 ^ 15

RECURSIVE Digits(_)
Digits(n) == IF n = 0 THEN << >> ELSE <<n % Radix>> \o Digits(n \div Radix)

DigitAt(a, i) == IF i <= Len(a) THEN a[i] ELSE 0

RECURSIVE Trim(_)
Trim(a) ==
    IF a = << >> \/ a[Len(a)] # 0 THEN a ELSE Trim(SubSeq(a, 1, Len(a) - 1))

\* a < b from digit i down, for a and b of the same length
RECURSIVE LessFrom(_, _, _)
LessFrom(a, b, i) ==
    IF i = 0 THEN FALSE
    ELSE IF a[i] # b[i] THEN a[i] < b[i]
    ELSE LessFrom(a, b, i - 1)

BigLess(a, b) ==
    IF Len(a) # Len(b) THEN Len(a) < Len(b) ELSE LessFrom(a, b, Len(a))

RECURSIVE AddFrom(_, _, _, _, _)
AddFrom(a, b, i, carry, acc) ==
    IF i > Len(a) /\ i > Len(b)
    THEN IF carry > 0 THEN Append(acc, carry) ELSE acc
    ELSE LET s == DigitAt(a, i) + DigitAt(b, i) + carry
         IN AddFrom(a, b, i + 1, s \div Radix, Append(acc, s % Radix))

BigAdd(a, b) ==
    AddFrom(a, b, 1, 0, << >>)

RECURSIVE SubFrom(_, _, _, _, _)
SubFrom(a, b, i, borrow, acc) ==
    IF i > Len(a) THEN Trim(acc)
    ELSE LET d == a[i] - DigitAt(b, i) - borrow
         IN SubFrom(a, b, i + 1, IF d < 0 THEN 1 ELSE 0,
                    Append(acc, IF d < 0 THEN d + Radix ELSE d))

\* a - b for a >= b
BigSub(a, b) ==
    SubFrom(a, b, 1, 0, << >>)

RECURSIVE TimesFrom(_, _, _, _, _)
TimesFrom(a, t, i, carry, acc) ==
    IF i > Len(a)
    THEN IF carry > 0 THEN Append(acc, carry) ELSE acc
    ELSE LET p == a[i] * t + carry
         IN TimesFrom(a, t, i + 1, p \div Radix, Append(acc, p % Radix))

\* a * t for 0 <= t <= Radix
BigTimes(a, t) == IF t = 0 THEN << >> ELSE TimesFrom(a, t, 1, 0, << >>)

\* a * Radix^n
ShiftDigits(a, n) == IF a = << >> \/ n = 0 THEN a ELSE [j \in 1..n |-> 0] \o a

\* a * 2^k
Shl(a, k) == ShiftDigits(BigTimes(a, 2 ^ (k % 15)), k \div 15)

RECURSIVE MulFrom(_, _, _, _)
MulFrom(a, b, i, acc) ==
    IF i > Len(b) THEN acc
    ELSE LET sum == BigAdd(acc, ShiftDigits(BigTimes(a, b[i]), i - 1))
         IN MulFrom(a, b, i + 1, sum)

BigMul(a, b) ==
    MulFrom(a, b, 1, << >>)

\* quotient and remainder of a by a digit t > 0, from digit i down
RECURSIVE ShortFrom(_, _, _, _, _)
ShortFrom(a, t, i, quot, rem) ==
    IF i = 0 THEN [quot |-> Trim(quot), rem |-> rem]
    ELSE LET r == rem * Radix + a[i]
         IN ShortFrom(a, t, i - 1, <<r \div t>> \o quot, r % t)

\* the number of binary digits of a digit
BitLenOfDigit(n) == Cardinality({j \in 0..14 : 2 ^ j <= n})

\* the number of binary digits of a
BitLen(a) ==
    IF a = << >> THEN 0 ELSE 15 * (Len(a) - 1) + BitLenOfDigit(a[Len(a)])

\* the largest digit q with q * d <= r, for r < Radix * d and a divisor of
\* two digits or more whose first binary digit is at the top of its last
\* digit: the two leading digits of r by the leading digit of d give q or
\* up to 2 more
QuotDigit(r, d) ==
    LET n == Len(d)
        lead == (DigitAt(r, n + 1) * Radix + DigitAt(r, n)) \div d[n]
        guess == IF lead < Radix THEN lead ELSE Radix - 1
    IN CHOOSE q \in Max(guess - 2, 0)..guess :
           /\ ~BigLess(r, BigTimes(d, q))
           /\ q = guess \/ BigLess(r, BigTimes(d, q + 1))

\* long division: the digits of a from digit i down are still to bring down
RECURSIVE DivFrom(_, _, _, _, _)
DivFrom(a, d, i, quot, rem) ==
    IF i = 0 THEN [quot |-> Trim(quot), rem |-> rem]
    ELSE LET r == Trim(<<a[i]>> \o rem)
             q == QuotDigit(r, d)
         IN IF q = 0
            THEN DivFrom(a, d, i - 1, <<0>> \o quot, r)
            ELSE DivFrom(a, d, i - 1, <<q>> \o quot, BigSub(r, BigTimes(d, q)))

\* quotient of a by d > 0, and whether it is exact.  A divisor of several
\* digits is first scaled, with a, to have its first binary digit at the top
\* of its last digit; the upper Len(d) - 1 digits of a are less than d and
\* begin as the remainder
BigDiv(a, d) ==
    IF Len(d) = 1
    THEN LET r == ShortFrom(a, d[1], Len(a), << >>, 0)
         IN [quot |-> r.quot, exact |-> r.rem = 0]
    ELSE LET s == 15 - BitLenOfDigit(d[Len(d)])
             x == Shl(a, s)
             y == Shl(d, s)
             n == Len(x) - Len(y) + 1
         IN IF n <= 0 THEN [quot |-> << >>, exact |-> x = << >>]
            ELSE LET r == DivFrom(x, y, n, << >>, SubSeq(x, n + 1, Len(x)))
                 IN [quot |-> r.quot, exact |-> r.rem = << >>]

\* a \div 2^k, and whether it is exact
Shr(a, k) ==
    LET n == k \div 15
        r == ShortFrom(a, 2 ^ (k % 15), Len(a), << >>, 0)
    IN [quot |-> SubSeq(r.quot, n + 1, Len(r.quot)),
        exact |-> r.rem = 0 /\ \A j \in 1..n : DigitAt(r.quot, j) = 0]

Zero == [sign |-> 1, mant |-> << >>, exp |-> 0]

\* the float nearest to sign * (q.quot + f) * 2^e, where q.quot has 55 or 56
\* binary digits and 0 <= f < 1, f = 0 when q.exact: the upper 53 digits are
\* kept and rounded on the lower ones and f
Nearest(sign, q, e) ==
    LET extra == BitLen(q.quot) - 53
        kept == Shr(q.quot, extra).quot
        low == q.quot[1] % (2 ^ extra)
        half == 2 ^ (extra - 1)
        up == \/ low > half
              \/ low = half /\ (~q.exact \/ kept[1] % 2 = 1)
        m == IF up THEN BigAdd(kept, <<1>>) ELSE kept
    IN IF BitLen(m) = 54
       THEN [sign |-> sign, mant |-> Shr(m, 1).quot, exp |-> e + extra + 1]
       ELSE [sign |-> sign, mant |-> m, exp |-> e + extra]

\* the float nearest to sign * n / d for n > 0 and d > 0
RoundRatio(sign, n, d) ==
    LET k == 55 - (BitLen(n) - BitLen(d))
    IN Nearest(sign, IF k >= 0 THEN BigDiv(Shl(n, k), d) ELSE BigDiv(n, Shl(d, -k)), -k)

\* the float nearest to the real number x = sign * mant * 2^exp
Round(x) ==
    IF x.mant = << >> THEN Zero
    ELSE LET k == BitLen(x.mant) - 55
         IN Nearest(x.sign,
                    IF k > 0 THEN Shr(x.mant, k)
                    ELSE [quot |-> Shl(x.mant, -k), exact |-> TRUE],
                    x.exp + k)

\* a float literal: the float nearest to the decimal num / den
Float(num, den) ==
    IF num = 0 THEN Zero
    ELSE RoundRatio(IF num < 0 THEN -1 ELSE 1, Digits(Abs(num)), Digits(den))

\* a - b and a * b as real numbers: sign * mant * 2^exp, mant of any length
ExactSub(a, b) ==
    LET e == IF a.exp < b.exp THEN a.exp ELSE b.exp
        x == Shl(a.mant, a.exp - e)
        y == Shl(b.mant, b.exp - e)
    IN IF a.sign # b.sign
       THEN [sign |-> IF x = << >> THEN 1 ELSE a.sign, mant |-> BigAdd(x, y), exp |-> e]
       ELSE IF BigLess(x, y)
       THEN [sign |-> -a.sign, mant |-> BigSub(y, x), exp |-> e]
       ELSE [sign |-> IF x = y THEN 1 ELSE a.sign, mant |-> BigSub(x, y), exp |-> e]

ExactMul(a, b) ==
    [sign |-> a.sign * b.sign, mant |-> BigMul(a.mant, b.mant), exp |-> a.exp + b.exp]

FloatSub(a, b) == Round(ExactSub(a, b))

\* the floats next to the real number x # 0 whose mantissa has 53 binary
\* digits or more: x when it is a float, else the one below and the one
\* above it in magnitude
Neighbours(x) ==
    LET k == BitLen(x.mant) - 53
        q == Shr(x.mant, k)
        up == BigAdd(q.quot, <<1>>)
        below == [sign |-> x.sign, mant |-> q.quot, exp |-> x.exp + k]
        above == IF BitLen(up) = 54
                 THEN [sign |-> x.sign, mant |-> Shr(up, 1).quot, exp |-> x.exp + k + 1]
                 ELSE [sign |-> x.sign, mant |-> up, exp |-> x.exp + k]
    IN IF q.exact THEN {below} ELSE {below, above}

\* a / b for b # 0
FloatDiv(a, b) ==
    IF a.mant = << >> THEN Zero
    ELSE LET e == a.exp - b.exp
         IN IF e >= 0 THEN RoundRatio(a.sign * b.sign, Shl(a.mant, e), b.mant)
            ELSE RoundRatio(a.sign * b.sign, a.mant, Shl(b.mant, -e))

\* x ** 2 for x # 0: the floats pow(x, 2.0) may return
FloatSquare(x) == Neighbours(ExactMul(x, x))

\* x <= 0
NotPositive(x) == x.sign = -1 \/ x.mant = << >>

KellyMu == {Float(1, 100), Float(10, 100), Float(1, 2), Float(-1, 4), Float(0, 1)}
KellySigma == {Float(20, 100), Float(397, 10000), Float(1, 2), Float(1, 1), Float(0, 1),
               Float(-20, 100)}
KellyR == {Float(0, 1), Float(2, 100), Float(5, 100), Float(1, 4)}

optimal_leverage_by_sigma(mu, sigma, r) ==
    IF NotPositive(sigma) THEN {Zero}
    ELSE {FloatDiv(FloatSub(mu, r), sigma)}

\* the floats the call may return, one for each float pow may return
optimal_leverage(mu, sigma, r) ==
    IF NotPositive(sigma) THEN {Zero}
    ELSE {FloatDiv(FloatSub(mu, r), square) : square \in FloatSquare(sigma)}

InitKelly ==
    /\ executor = PaperExecutor(InitialCapital, Ptc, Ftc)
    /\ om = OrderManager(MaxPositionSize, MaxDrawdownPct, InitialCapital)
    /\ last = NoCall
    /\ pc = "idle"
    /\ tick = [signal |-> 0, current_price |-> 0, bar_price |-> 0]
    /\ tick_calls = << >>
    /\ n_ticks = 0
    /\ mode = "optimal_leverage"
    /\ \E mu \in KellyMu, sigma \in KellySigma, r \in KellyR :
          bt = [engine |-> "performance", mu |-> mu, sigma |-> sigma, r |-> r,
                result |-> None]

OptimalLeverage ==
    /\ mode = "optimal_leverage" /\ bt.result = None
    /\ \E f \in optimal_leverage(bt.mu, bt.sigma, bt.r) :
          bt' = [bt EXCEPT !.result = Some(f)]
    /\ FrameBacktest

NextKelly == OptimalLeverage

SpecKelly == InitKelly /\ [][NextKelly]_vars

----------------------------------------------------------------------------
(* Shutdown.  automated_strategy installs _shutdown_handler for SIGINT and *)
(* SIGTERM and runs run_polling in the same thread.  Python runs the       *)
(* handler between two bytecodes of that thread, so it can come between    *)
(* any two statements of _poll_once, of execute_signal and of close_out,   *)
(* the handler's own close_out included; it calls close_out and then       *)
(* sys.exit, which ends the loop, so the code it interrupts never resumes. *)
(* main installs the handler before it builds the BTCTrader: pc = "main"   *)
(* is main between the two, _trader still None, and a signal then ends in  *)
(* sys.exit alone.  The handler stays installed when run_polling has       *)
(* returned: a signal in the last statements of main, pc = "closed", runs  *)
(* close_out once more.                                                    *)
(* _poll_once, execute_signal, close_out and the orders of the paper       *)
(* executor are therefore followed statement by statement here: pc is the  *)
(* statement that comes next, and last holds the locals of the call in     *)
(* progress and what it has sent.                                          *)

InExecuteSignal == {"es_close", "es_record", "es_open", "es_assign"}

InCloseOut == {"co_close", "co_record", "co_reset"}

ShutdownCall(op, start, n_trades, sent, orders, at, signals) ==
    [step |-> 0,           \* statements run of the executor call in progress
     order |-> None,       \* the local variable order
     op |-> op,            \* "execute_signal", "close_out", or "shutdown" once the handler runs
     start |-> start,      \* the position when the interrupted call was entered
     n_trades |-> n_trades,  \* len(trades) when it was entered
     sent |-> sent,        \* requests the call has sent so far
     orders |-> orders,    \* requests sent by the handler's close_all
     at |-> at,            \* where the loop stood when the handler ran
     signals |-> signals]  \* the signals delivered so far

InitShutdown ==
    /\ executor = PaperExecutor(InitialCapital, Ptc, 0)
    /\ om = OrderManager(Units * MaxLeverage, MaxDrawdownPct, InitialCapital)
    /\ last = NoCall
    /\ pc = "main"
    /\ tick = [signal |-> 0, current_price |-> 0, bar_price |-> 0]
    /\ tick_calls = << >>
    /\ n_ticks = 0
    /\ bt = NoBacktest
    /\ mode = "shutdown"

\* main: _trader = BTCTrader(...), run_polling
SdMain ==
    /\ mode = "shutdown" /\ pc = "main"
    /\ pc' = "idle"
    /\ UNCHANGED <<om, executor, last, mode, bt, tick, tick_calls, n_ticks>>

\* _poll_once: fetch_ohlcv and generate_signal
SdFetch ==
    \E s \in Signals, p \in Prices :
        /\ mode = "shutdown" /\ pc = "idle" /\ n_ticks < MaxTicks
        /\ n_ticks' = n_ticks + 1
        /\ tick' = [signal |-> s, current_price |-> p, bar_price |-> p]
        /\ pc' = "update_equity"
        /\ UNCHANGED <<om, executor, last, mode, bt, tick_calls>>

\* update_equity: the unrealized pnl of the position
SdMarkToMarket ==
    /\ mode = "shutdown" /\ pc = "update_equity"
    /\ om' = [om EXCEPT !.position =
                 update_equity(om, executor, tick.current_price).om.position]
    /\ pc' = "ue_append"
    /\ UNCHANGED <<executor, last, mode, bt, tick, tick_calls, n_ticks>>

\* update_equity: get_balance and the sample appended
SdUpdateEquity ==
    /\ mode = "shutdown" /\ pc = "ue_append"
    /\ LET r == TraderUpdateEquity(om, executor, tick)
       IN om' = r.om /\ executor' = r.ex
    /\ pc' = "check_risk"
    /\ UNCHANGED <<last, mode, bt, tick, tick_calls, n_ticks>>

\* check_risk, and the signal forced to 0 when it answers False
SdCheckRisk ==
    /\ mode = "shutdown" /\ pc = "check_risk"
    /\ LET r == TraderCheckRisk(om, executor, tick)
       IN /\ om' = r.om
          /\ tick' = r.tick
    /\ pc' = "set_price"
    /\ UNCHANGED <<executor, last, mode, bt, tick_calls, n_ticks>>

\* the short remap and the executor's price update
SdSetPrice ==
    /\ mode = "shutdown" /\ pc = "set_price"
    /\ tick' = [tick EXCEPT !.signal = NoShort(@)]
    /\ executor' = set_price(executor, tick.current_price)
    /\ pc' = "execute_signal"
    /\ UNCHANGED <<om, last, mode, bt, tick_calls, n_ticks>>

\* _poll_once: fetch_ohlcv returned nothing
SdSkip ==
    /\ mode = "shutdown" /\ pc = "idle" /\ n_ticks < MaxTicks
    /\ n_ticks' = n_ticks + 1
    /\ UNCHANGED <<om, executor, last, mode, bt, pc, tick, tick_calls>>

\* _poll_once: bar_data is stored, but it is shorter than the strategy needs
SdWarmup ==
    \E p \in WarmupPrices :
        /\ mode = "shutdown" /\ pc = "idle" /\ n_ticks < MaxTicks
        /\ n_ticks' = n_ticks + 1
        /\ tick' = [tick EXCEPT !.bar_price = p]
        /\ UNCHANGED <<om, executor, last, mode, bt, pc, tick_calls>>

\* execute_signal up to the closing order: halt, no change, clamp
SdEnter ==
    /\ mode = "shutdown" /\ pc = "execute_signal"
    /\ LET signal == EffectiveSignal(om, tick.signal)
       IN /\ tick' = [tick EXCEPT !.signal = signal]
          /\ pc' = IF NoChange(om, signal) THEN "idle" ELSE "es_close"
    /\ last' = ShutdownCall("execute_signal", om.position, Len(om.trades),
                             << >>, << >>, pc, 0)
    /\ UNCHANGED <<om, executor, mode, bt, tick_calls, n_ticks>>

\* the order placed at the statement pc: the opening order of
\* execute_signal, or the order that closes the position
SdOrderAt ==
    OrderAt(IF pc = "es_open" THEN "es_open" ELSE "es_close", om,
            [signal |-> tick.signal, amount |-> ClampAmount(om, Units)])

\* the executor call has returned: the request joins those of the call, or
\* those of the handler
SdOrdered(l, request, order) ==
    IF l.op = "shutdown"
    THEN [l EXCEPT !.orders = Append(@, request), !.order = order, !.step = 0]
    ELSE [l EXCEPT !.sent = Append(@, request), !.order = order, !.step = 0]

\* one statement of the order placed at pc, after which comes next: no
\* order to place, or a statement of market_buy / market_sell
SdPlaceOrder(next) ==
    IF SdOrderAt = None
    THEN /\ pc' = next
         /\ UNCHANGED <<executor, last>>
    ELSE LET o == SdOrderAt[1]
             r == paper_order_step(executor, o.side, o.amount, last.step)
         IN /\ executor' = r.ex
            /\ IF r.done
               THEN /\ pc' = next
                    /\ last' = SdOrdered(last, Request(o.method, o.amount, r), r.order)
               ELSE /\ last' = [last EXCEPT !.step = @ + 1]
                    /\ UNCHANGED pc

\* the order that closes the existing position
SdClose ==
    /\ mode = "shutdown" /\ pc = "es_close"
    /\ SdPlaceOrder("es_record")
    /\ UNCHANGED <<om, mode, bt, tick, tick_calls, n_ticks>>

\* _record_close
SdRecord ==
    /\ mode = "shutdown" /\ pc = "es_record"
    /\ om' = IF om.position.side # 0 THEN record_close(om, tick.current_price) ELSE om
    /\ pc' = "es_open"
    /\ UNCHANGED <<executor, last, mode, bt, tick, tick_calls, n_ticks>>

\* the order that opens the new position
SdOpen ==
    /\ mode = "shutdown" /\ pc = "es_open"
    /\ SdPlaceOrder("es_assign")
    /\ UNCHANGED <<om, mode, bt, tick, tick_calls, n_ticks>>

\* self.position = Position(...), return order
SdAssign ==
    /\ mode = "shutdown" /\ pc = "es_assign"
    /\ om' = [om EXCEPT !.position =
                 IF tick.signal = 0 THEN FlatPosition
                 ELSE Position(tick.signal, tick.current_price, ClampAmount(om, Units))]
    /\ pc' = "idle"
    /\ UNCHANGED <<executor, last, mode, bt, tick, tick_calls, n_ticks>>

\* run_polling after its last interval: close_out up to close_all, the
\* price being the last one of bar_data
SdCloseOut ==
    /\ mode = "shutdown" /\ pc = "idle" /\ n_ticks = MaxTicks
    /\ executor' = set_price(executor, tick.bar_price)
    /\ last' = ShutdownCall("close_out", om.position, Len(om.trades),
                             << >>, << >>, pc, 0)
    /\ pc' = "co_close"
    /\ UNCHANGED <<om, mode, bt, tick, tick_calls, n_ticks>>

SdSignals == IF last.op = "shutdown" THEN last.signals ELSE 0

\* _shutdown_handler: sys.exit alone while _trader is None; else close_out
\* up to close_all, and sys.exit follows it
SdInterrupt ==
    /\ mode = "shutdown" /\ pc # "exited"
    /\ SdSignals < MaxSignals
    /\ IF pc = "main"
       THEN /\ pc' = "exited"
            /\ last' = ShutdownCall("sys.exit", om.position, Len(om.trades),
                                     << >>, << >>, pc, SdSignals + 1)
            /\ UNCHANGED executor
       ELSE /\ executor' = set_price(executor, tick.bar_price)
            /\ LET inside == pc \in InExecuteSignal \cup InCloseOut
               IN last' = ShutdownCall("shutdown",
                                       IF inside THEN last.start ELSE om.position,
                                       IF inside THEN last.n_trades ELSE Len(om.trades),
                                       IF inside THEN last.sent ELSE << >>,
                                       IF last.op = "shutdown" THEN last.orders ELSE << >>,
                                       pc, SdSignals + 1)
            /\ pc' = "co_close"
    /\ UNCHANGED <<om, mode, bt, tick, tick_calls, n_ticks>>

\* close_all: the order that closes the existing position
SdCoClose ==
    /\ mode = "shutdown" /\ pc = "co_close"
    /\ SdPlaceOrder("co_record")
    /\ UNCHANGED <<om, mode, bt, tick, tick_calls, n_ticks>>

\* close_all: _record_close
SdCoRecord ==
    /\ mode = "shutdown" /\ pc = "co_record"
    /\ om' = record_close(om, tick.bar_price)
    /\ pc' = "co_reset"
    /\ UNCHANGED <<executor, last, mode, bt, tick, tick_calls, n_ticks>>

\* close_all: self.position = Position(), cancel_all_orders; close_out
\* returns to run_polling, or to the handler and its sys.exit
SdCoReset ==
    /\ mode = "shutdown" /\ pc = "co_reset"
    /\ om' = [om EXCEPT !.position = FlatPosition]
    /\ executor' = ExecutorCancelAllOrders(executor).ex
    /\ pc' = IF last.op = "shutdown" THEN "exited" ELSE "closed"
    /\ UNCHANGED <<last, mode, bt, tick, tick_calls, n_ticks>>

NextShutdown ==
    \/ SdMain
    \/ SdSkip
    \/ SdWarmup
    \/ SdFetch
    \/ SdMarkToMarket
    \/ SdUpdateEquity
    \/ SdCheckRisk
    \/ SdSetPrice
    \/ SdEnter
    \/ SdClose
    \/ SdRecord
    \/ SdOpen
    \/ SdAssign
    \/ SdCloseOut
    \/ SdInterrupt
    \/ SdCoClose
    \/ SdCoRecord
    \/ SdCoReset

SpecShutdown == InitShutdown /\ [][NextShutdown]_vars

----------------------------------------------------------------------------
(* The exchange behind create_order: market orders on the live executor,   *)
(* with every outcome an attempt can have at the exchange.                 *)

\* what happens to the attempts of one call; the attempts past the first
\* answer that is not a transient error are never made
ExchangeScripts ==
    {f \in [1..MaxRetries -> ExchangeOutcomes] :
        \A i, j \in 1..MaxRetries :
            (i < j /\ ClientReply(f[i]) \notin Transient) => f[j] = "ok"}

InitExchange ==
    /\ \E trading_type \in {"spot", "swap"}, market \in LiveMarkets :
           executor = MEXCExecutor(trading_type, market)
    /\ om = OrderManager(MaxPositionSize, MaxDrawdownPct, InitialCapital)
    /\ last = NoCall
    /\ pc = "main"
    /\ tick = IdleTick
    /\ tick_calls = << >>
    /\ n_ticks = 0
    /\ bt = NoBacktest
    /\ mode = "exchange"

ExchangeMarketBuy ==
    \E a \in LiveAmounts, outcomes \in ExchangeScripts :
        /\ mode = "exchange" /\ LiveRoom
        /\ PlaceOrderBegin("market_buy", "buy", "market", a, None, FALSE, outcomes)

ExchangeMarketSell ==
    \E a \in LiveAmounts, outcomes \in ExchangeScripts :
        /\ mode = "exchange" /\ LiveRoom
        /\ PlaceOrderBegin("market_sell", "sell", "market", a, None, FALSE, outcomes)

NextExchange ==
    \/ LiveMain
    \/ ExchangeMarketBuy
    \/ ExchangeMarketSell
    \/ LiveCreateOrder
    \/ LiveShutdown
    \/ LiveOrder
    \/ LiveRecord
    \/ LiveReset
    \/ LiveCancel

SpecExchange == InitExchange /\ [][NextExchange]_vars

----------------------------------------------------------------------------
(* AlertManager (monitoring).  The manager is the record in bt: its rules  *)
(* in the order they were added, its tick counter, and the calls it made   *)
(* to the on_alert callback.                                               *)

MaxRules == 2

MaxChecks == 4

DefaultLastFired == 0

AlertMetrics == {"drawdown", "equity"}

AlertComparators == {"gt", "lt", "gte", "lte"}

AlertCooldowns == {1, 3}

AlertThreshold == 0

\* a metric of the dict passed to check: missing, or its value
AlertValues == {None, Some(-1), Some(0), Some(1)}

AlertRule(name, metric, threshold, comparator, cooldown_ticks) ==
    [name |-> name, metric |-> metric, threshold |-> threshold,
     comparator |-> comparator, cooldown_ticks |-> cooldown_ticks,
     last_fired |-> DefaultLastFired]

\* the comparison of AlertRule.check
Triggered(rule, value) ==
    IF rule.comparator = "gt" /\ value > rule.threshold THEN TRUE
    ELSE IF rule.comparator = "lt" /\ value < rule.threshold THEN TRUE
    ELSE IF rule.comparator = "gte" /\ value >= rule.threshold THEN TRUE
    ELSE IF rule.comparator = "lte" /\ value <= rule.threshold THEN TRUE
    ELSE FALSE

AlertRule_check(rule, value, t) ==
    IF t - rule.last_fired < rule.cooldown_ticks
    THEN [rule |-> rule, ret |-> FALSE]
    ELSE IF Triggered(rule, value)
    THEN [rule |-> [rule EXCEPT !.last_fired = t], ret |-> TRUE]
    ELSE [rule |-> rule, ret |-> FALSE]

AlertManager ==
    [engine |-> "monitoring", rules |-> << >>, tick |-> 0, alerts |-> << >>]

add_rule(am, rule) == [am EXCEPT !.rules = Append(@, rule)]

\* the loop of AlertManager.check from rule i on; triggered is the list so far
RECURSIVE check_rules(_, _, _, _)
check_rules(am, metrics, i, triggered) ==
    IF i > Len(am.rules) THEN [am |-> am, ret |-> triggered]
    ELSE LET rule == am.rules[i]
             value == metrics[rule.metric]
         IN IF value = None
            THEN check_rules(am, metrics, i + 1, triggered)
            ELSE LET r == AlertRule_check(rule, value[1], am.tick)
                 IN IF r.ret
                    THEN check_rules(
                             [am EXCEPT !.rules[i] = r.rule,
                                        !.alerts = Append(@, [name |-> rule.name,
                                                              metric |-> rule.metric,
                                                              value |-> value[1],
                                                              tick |-> am.tick])],
                             metrics, i + 1, Append(triggered, rule.name))
                    ELSE check_rules([am EXCEPT !.rules[i] = r.rule],
                                     metrics, i + 1, triggered)

AlertManager_check(am, metrics) ==
    check_rules([am EXCEPT !.tick = @ + 1], metrics, 1, << >>)

InitAlerts ==
    /\ executor = PaperExecutor(InitialCapital, Ptc, 0)
    /\ om = OrderManager(MaxPositionSize, MaxDrawdownPct, InitialCapital)
    /\ last = NoCall
    /\ pc = "idle"
    /\ tick = [signal |-> 0, current_price |-> 0, bar_price |-> 0]
    /\ tick_calls = << >>
    /\ n_ticks = 0
    /\ bt = AlertManager
    /\ mode = "alerts"

FrameAlerts == UNCHANGED <<om, executor, mode, pc, tick, tick_calls, n_ticks>>

\* add_rule; the rules of one manager are given different names
AddRule ==
    \E metric \in AlertMetrics, comparator \in AlertComparators,
       cooldown_ticks \in AlertCooldowns :
        /\ mode = "alerts" /\ Len(bt.rules) < MaxRules
        /\ LET rule == AlertRule(Len(bt.rules) + 1, metric, AlertThreshold,
                                 comparator, cooldown_ticks)
           IN /\ bt' = add_rule(bt, rule)
              /\ last' = [op |-> "add_rule", rule |-> rule]
        /\ FrameAlerts

Check ==
    \E metrics \in [AlertMetrics -> AlertValues] :
        /\ mode = "alerts" /\ bt.tick < MaxChecks
        /\ LET r == AlertManager_check(bt, metrics)
           IN /\ bt' = r.am
              /\ last' = [op |-> "check", metrics |-> metrics, triggered |-> r.ret]
        /\ FrameAlerts

NextAlerts ==
    \/ AddRule
    \/ Check

SpecAlerts == InitAlerts /\ [][NextAlerts]_vars

----------------------------------------------------------------------------
(* Properties *)

Min(a, b) == IF a < b THEN a ELSE b

SeqRange(q) == {q[i] : i \in DOMAIN q}

Peak(curve) == CHOOSE x \in SeqRange(curve) : \A y \in SeqRange(curve) : y <= x

Requests(orders) ==
    \* the executor calls of a call record, without their results
    [i \in DOMAIN orders |-> [method |-> orders[i].method, amount |-> orders[i].amount]]

ClosingRequests(position) ==
    \* the one request that closes the position, none when it is flat
    IF position.side = 1
    THEN <<[method |-> "market_sell", amount |-> position.amount]>>
    ELSE IF position.side = -1
    THEN <<[method |-> "market_buy", amount |-> position.amount]>>
    ELSE << >>

\* C1: the position's amount is 0 if and only if its side is flat, after any
\* sequence of execute_signal calls (any signal, any amount including 0).
C1_AmountZeroIffFlat ==
    (om.position.amount = 0) <=> (om.position.side = 0)

\* C2: the halt flag is one-way: once halted is true it is true after every
\* later call, also when equity later recovers to its previous peak or above.
C2_HaltOneWay == [][om.halted => om'.halted]_vars

C2_HaltedAfterRecovery ==
    /\ om.halted
    /\ last.op = "check_risk" /\ last.ok
    /\ Len(om.equity_curve) >= 3
    /\ Last(om.equity_curve) >=
           Peak(SubSeq(om.equity_curve, 1, Len(om.equity_curve) - 1))

\* C3: while the Order Manager is halted, an execute_signal call ends with the
\* position flat, and the requests it sends to the executor are exactly the
\* one closing the position that was open (none when it was flat).
C3_HaltedForcesFlat ==
    [][(om.halted /\ last'.op = "execute_signal")
          => /\ om'.position = FlatPosition
             /\ Requests(last'.orders) = ClosingRequests(om.position)]_vars

C3_HaltedCloseOnLongSignal ==
    /\ om.halted
    /\ last.op = "execute_signal" /\ last.signal = 1 /\ last.amount > 0
    /\ Len(last.orders) = 1 /\ last.orders[1].method = "market_sell"
    /\ om.position = FlatPosition

\* C4: in every tick of _poll_once and of run_on_data the Order Manager calls
\* are a prefix of update_equity, check_risk, execute_signal, each at most
\* once and in that order, and a tick that has ended made none or all three.
TickOrder == <<"update_equity", "check_risk", "execute_signal">>

C4_TickCallOrder ==
    /\ Len(tick_calls) <= Len(TickOrder)
    /\ tick_calls = SubSeq(TickOrder, 1, Len(tick_calls))
    /\ (pc \in {"idle", "closed"} => Len(tick_calls) \in {0, Len(TickOrder)})

C4_TickExecutedAfterBreach ==
    /\ mode = "poll"
    /\ pc = "idle" /\ tick_calls = TickOrder
    /\ om.halted /\ last.op = "execute_signal" /\ last.orders # << >>

\* C5 (as claimed): in any reachable state, execute_signal with a signal equal
\* to the current side sends no order, appends no Trade Record, returns None
\* and leaves the position unchanged.
C5_SameSignalNoOp ==
    [][(last'.op = "execute_signal" /\ last'.signal = om.position.side)
          => /\ last'.orders = << >>
             /\ last'.order = None
             /\ om'.trades = om.trades
             /\ om'.position = om.position
             /\ executor' = executor]_vars

\* C5 (amended): in any reachable state in which the Order Manager is not
\* halted or the position is flat, execute_signal with a signal equal to the
\* current side sends no order, appends no Trade Record, returns None and
\* leaves the position unchanged.
C5_SameSignalNoOpUnlessHalted ==
    [][(/\ last'.op = "execute_signal"
        /\ last'.signal = om.position.side
        /\ (~om.halted \/ om.position.side = 0))
          => /\ last'.orders = << >>
             /\ last'.order = None
             /\ om'.trades = om.trades
             /\ om'.position = om.position
             /\ executor' = executor]_vars

C5_LongRepeatedOtherAmount ==
    /\ ~om.halted
    /\ last.op = "execute_signal" /\ last.signal = 1
    /\ om.position.side = 1
    /\ last.amount # om.position.amount
    /\ last.price # om.position.entry_price
    /\ last.orders = << >>

\* C6: the position amount never exceeds max_position_size, and when
\* execute_signal is asked for more than max_position_size and opens a
\* position, the opening order and position.amount are max_position_size.
C6_Clamped ==
    /\ om.position.amount <= om.max_position_size
    /\ (/\ last.op = "execute_signal"
        /\ last.amount > om.max_position_size
        /\ last.orders # << >>
        /\ om.position.side # 0)
          => /\ Last(last.orders).amount = om.max_position_size
             /\ om.position.amount = om.max_position_size

C6_OversizedOpenFilled ==
    /\ last.op = "execute_signal"
    /\ last.amount > om.max_position_size
    /\ om.position.side = 1
    /\ last.orders # << >>
    /\ Last(last.orders).order # None

\* C7: check_risk returns false and sets halted exactly when
\* (peak - latest) / peak > max_drawdown_pct, peak being the maximum of the
\* whole equity curve and latest its last sample; otherwise it returns true
\* and leaves halted as it was.  Equality with the threshold does not halt.
Breach(m) ==
    LET peak == Peak(m.equity_curve)
        latest == m.equity_curve[Len(m.equity_curve)]
    IN (peak - latest) * m.max_drawdown_pct.den > m.max_drawdown_pct.num * peak

C7_CheckRiskThreshold ==
    [][last'.op = "check_risk"
          => /\ last'.ok = ~Breach(om)
             /\ om'.halted = (om.halted \/ Breach(om))
             /\ om'.equity_curve = om.equity_curve]_vars

C7_DrawdownAtThresholdPasses ==
    LET peak == Peak(om.equity_curve)
        latest == Last(om.equity_curve)
    IN /\ last.op = "check_risk" /\ last.ok
       /\ ~om.halted
       /\ latest < peak
       /\ (peak - latest) * om.max_drawdown_pct.den = om.max_drawdown_pct.num * peak

\* C8: when the executor returns None for the opening order of an
\* execute_signal call, the position does not become the long/short target.
C8_RejectedOpenLeavesPosition ==
    (/\ last.op = "execute_signal"
     /\ ~om.halted
     /\ last.signal # 0
     /\ last.orders # << >>
     /\ Last(last.orders).order = None)
        => om.position.side # last.signal

\* C9 (as claimed): not halted, after execute_signal(s, a, p) the side is s;
\* if s # 0 the entry price is p and the amount min(a, max_position_size);
\* if s = 0 the position is the flat value.
C9_TargetReached ==
    (last.op = "execute_signal" /\ ~om.halted)
        => /\ om.position.side = last.signal
           /\ (last.signal # 0
                 => /\ om.position.entry_price = last.price
                    /\ om.position.amount = Min(last.amount, om.max_position_size))
           /\ (last.signal = 0 => om.position = FlatPosition)

\* C9 (amended): not halted, after execute_signal(s, a, p) the side is s; if
\* s # 0 and s differs from the starting side the entry price is p and the
\* amount min(a, max_position_size); if s equals the starting side the
\* position is unchanged; if s = 0 the position is the flat value.
C9_TargetReachedOnChange ==
    [][(last'.op = "execute_signal" /\ ~om.halted)
          => /\ om'.position.side = last'.signal
             /\ (last'.signal # 0 /\ last'.signal # om.position.side
                   => /\ om'.position.entry_price = last'.price
                      /\ om'.position.amount =
                             Min(last'.amount, om.max_position_size)
                      /\ om'.position.unrealized_pnl = 0)
             /\ (last'.signal = om.position.side => om'.position = om.position)
             /\ (last'.signal = 0 => om'.position = FlatPosition)]_vars

C9_ReversedLongToShort ==
    /\ last.op = "execute_signal" /\ ~om.halted
    /\ last.signal = -1 /\ om.position.side = -1
    /\ Len(last.orders) = 2
    /\ om.trades # << >> /\ Last(om.trades).side = 1
    /\ om.position.entry_price # Last(om.trades).entry

\* C10: every Trade Record has pnl = (exit - entry) * amount * side, with
\* entry, amount and side those of the position open when it was closed and
\* exit the price passed to the closing call.
C10_TradeRecordPnl ==
    /\ [](\A i \in DOMAIN om.trades :
            om.trades[i].pnl = (om.trades[i].exit - om.trades[i].entry)
                               * om.trades[i].amount * om.trades[i].side)
    /\ [][Len(om'.trades) > Len(om.trades)
            => LET r == om'.trades[Len(om'.trades)]
               IN /\ Len(om'.trades) = Len(om.trades) + 1
                  /\ r.side = om.position.side
                  /\ r.entry = om.position.entry_price
                  /\ r.amount = om.position.amount
                  /\ r.exit = last'.price
                  /\ r.pnl = (last'.price - om.position.entry_price)
                             * om.position.amount * om.position.side]_vars

C10_ShortClosedAtProfit ==
    /\ om.trades # << >>
    /\ Last(om.trades).side = -1
    /\ Last(om.trades).amount > 0
    /\ Last(om.trades).pnl > 0

\* C11: the Trade Record list is append-only.  An execute_signal or close_all
\* call that starts from a non-flat position and changes it appends exactly
\* one record; every other call (update_equity, check_risk, calls from flat,
\* calls that leave the position as it was) appends none; the records already
\* in the list stay as they were, in their order.
C11_ClosingCall ==
    /\ last'.op \in {"execute_signal", "close_all"}
    /\ om.position.side # 0
    /\ om'.position # om.position

C11_TradesAppendOnly ==
    [][/\ SubSeq(om'.trades, 1, Len(om.trades)) = om.trades
       /\ Len(om'.trades) =
              Len(om.trades) + (IF C11_ClosingCall THEN 1 ELSE 0)]_vars

C11_SecondRecordAppended ==
    /\ Len(om.trades) = 2
    /\ last.op = "close_all"
    /\ last.orders # << >>
    /\ om.trades[1] # om.trades[2]

\* C12: each update_equity(markPrice) call appends exactly one sample to the
\* equity curve and leaves the earlier samples as they were, and the sample
\* appended and returned is the total account value at markPrice: the cash
\* plus the held inventory marked at markPrice.
C12_EquitySampleAtMarkPrice ==
    [][last'.op = "update_equity"
          => /\ om'.equity_curve = Append(om.equity_curve, last'.equity)
             /\ last'.equity = executor.usdt + executor.btc * last'.price]_vars

\* C13: when execute_signal changes a non-flat position, the first request is
\* the market order closing the existing position (opposite side, the
\* existing position's amount, not the requested one), the Trade Record of
\* the existing position with exit price currentPrice is appended, and only
\* then the opening order follows: a reversal sends exactly two market
\* orders, close then open, a change to flat exactly one.
OpeningRequests(position) ==
    IF position.side = 1
    THEN <<[method |-> "market_buy", amount |-> position.amount]>>
    ELSE IF position.side = -1
    THEN <<[method |-> "market_sell", amount |-> position.amount]>>
    ELSE << >>

C13_CloseBeforeOpen ==
    [][(/\ last'.op = "execute_signal"
        /\ om.position.side # 0
        /\ om'.position.side # om.position.side)
          => /\ Requests(last'.orders) =
                    ClosingRequests(om.position) \o OpeningRequests(om'.position)
             /\ Len(om'.trades) = Len(om.trades) + 1
             /\ Last(om'.trades).exit = last'.price
             /\ Last(om'.trades).side = om.position.side
             /\ Last(om'.trades).entry = om.position.entry_price
             /\ Last(om'.trades).amount = om.position.amount
             /\ \A i \in DOMAIN last'.orders :
                    last'.orders[i].order # None
                        => /\ last'.orders[i].order[1].type = "market"
                           /\ last'.orders[i].order[1].id[2] > executor.order_count
                           /\ \A j \in DOMAIN last'.orders :
                                  (j > i /\ last'.orders[j].order # None)
                                      => last'.orders[j].order[1].id[2]
                                             > last'.orders[i].order[1].id[2]]_vars

C13_ReversalOtherAmount ==
    /\ last.op = "execute_signal"
    /\ Len(last.orders) = 2
    /\ last.orders[1].method = "market_sell" /\ last.orders[2].method = "market_sell"
    /\ last.orders[1].order # None /\ last.orders[2].order # None
    /\ last.orders[1].amount # last.orders[2].amount
    /\ last.orders[1].amount # last.amount
    /\ Last(om.trades).exit = last.price

\* C14: after close_all(p), from any state, the position is flat.  From a
\* non-flat position exactly one closing market order was sent (opposite
\* side, the position's amount) and exactly one Trade Record with exit
\* price p was appended; from a flat position no order was sent and no
\* record appended.  In both cases cancel_all_orders was requested once.
C14_CloseAllFlattens ==
    [][last'.op = "close_all"
          => /\ om'.position = FlatPosition
             /\ Requests(last'.orders) = ClosingRequests(om.position)
             /\ last'.cancels = 1
             /\ IF om.position.side # 0
                THEN /\ Len(om'.trades) = Len(om.trades) + 1
                     /\ SubSeq(om'.trades, 1, Len(om.trades)) = om.trades
                     /\ Last(om'.trades).exit = last'.price
                     /\ Last(om'.trades).side = om.position.side
                ELSE om'.trades = om.trades]_vars

C14_LongClosedOut ==
    /\ last.op = "close_all"
    /\ om.position = FlatPosition
    /\ Len(last.orders) = 1
    /\ last.orders[1].method = "market_sell"
    /\ last.orders[1].amount > 0
    /\ last.orders[1].order # None
    /\ last.cancels = 1
    /\ Last(om.trades).exit = last.price
    /\ Last(om.trades).side = 1

(* The simulated ledger *)

LedgerBuys == {"market_buy", "limit_buy"}

LedgerSells == {"market_sell", "limit_sell"}

LedgerOps == LedgerBuys \cup LedgerSells

Notional(call) == call.amount * call.price

\* cash * den after the call is filled, den being the denominator of ptc
CashAfterTimesDen(ex, call) ==
    LET n == Notional(call)
        cost == ex.ftc * ex.ptc.den + n * ex.ptc.num
    IN IF call.op \in LedgerBuys
       THEN (ex.usdt - n) * ex.ptc.den - cost
       ELSE (ex.usdt + n) * ex.ptc.den - cost

InventoryAfter(ex, call) ==
    IF call.op \in LedgerBuys THEN ex.btc + call.amount ELSE ex.btc - call.amount

\* C15: on the simulated ledger a market or limit buy whose cost plus
\* transaction cost exceeds the cash, and a sell of more than the held
\* inventory, return None and leave the cash, the inventory, the order
\* counter and the trade log unchanged.
C15_RejectedLeavesLedger ==
    [][(\/ last'.op \in LedgerBuys /\ CashAfterTimesDen(executor, last') < 0
        \/ last'.op \in LedgerSells /\ last'.amount > executor.btc)
          => /\ last'.order = None
             /\ executor' = executor]_vars

\* C16: on the simulated ledger, for any ptc >= 0 and ftc >= 0 and any calls
\* with non-negative amounts and prices, cash and inventory are never
\* negative: a buy or sell is filled exactly when the cash and the inventory
\* it results in are non-negative, and rejected otherwise.
C16_BalancesNonNegative ==
    /\ [](executor.usdt >= 0 /\ executor.btc >= 0)
    /\ [][last'.op \in LedgerOps
            => ((last'.order # None)
                  <=> (/\ CashAfterTimesDen(executor, last') >= 0
                       /\ InventoryAfter(executor, last') >= 0))]_vars

\* C17: a filled buy of amount a at price p takes a*p + ftc + a*p*ptc from
\* the cash and adds a to the inventory; a filled sell adds
\* a*p - (ftc + a*p*ptc) to the cash and takes a from the inventory; the
\* cost ftc + a*p*ptc is the same in both directions.
C17_CostModel ==
    [][(last'.op \in LedgerOps /\ last'.order # None)
          => /\ executor'.usdt * executor.ptc.den =
                    CashAfterTimesDen(executor, last')
             /\ executor'.btc = InventoryAfter(executor, last')
             /\ last'.order[1].tc * executor.ptc.den =
                    executor.ftc * executor.ptc.den
                    + Notional(last') * executor.ptc.num
             /\ last'.order[1].cost = Notional(last')]_vars

C17_SellFilledWithBothCosts ==
    /\ last.op \in LedgerSells
    /\ last.order # None
    /\ last.amount > 0
    /\ executor.ftc > 0 /\ executor.ptc.num > 0
    /\ last.order[1].tc > executor.ftc

\* C18: every filled order of the simulated ledger is one unit of work: it
\* changes the balances once and appends exactly one entry to the trade log,
\* with filled equal to the requested amount and the fresh id paper-N, N
\* being the number of fills so far; a rejected order appends nothing.  So
\* the trade log is as long as the order counter in every reachable state and
\* its entries are the fills in call order.
C18_OneEntryPerFill ==
    /\ [](/\ Len(executor.trade_log) = executor.order_count
          /\ \A i \in DOMAIN executor.trade_log :
                 /\ executor.trade_log[i].id = <<"paper", i>>
                 /\ executor.trade_log[i].filled = executor.trade_log[i].amount)
    /\ [][last'.op \in LedgerOps
            => IF last'.order # None
               THEN /\ executor'.trade_log =
                           Append(executor.trade_log, last'.order[1])
                    /\ executor'.order_count = executor.order_count + 1
                    /\ last'.order[1].id = <<"paper", executor.order_count + 1>>
                    /\ last'.order[1].filled = last'.amount
                    /\ executor'.btc = InventoryAfter(executor, last')
               ELSE executor' = executor]_vars

C18_SecondFillLogged ==
    /\ mode = "ledger"
    /\ Len(executor.trade_log) = 2
    /\ last.op \in LedgerOps
    /\ last.order = Some(executor.trade_log[2])
    /\ executor.trade_log[2].id = <<"paper", 2>>
    /\ executor.trade_log[1].side # executor.trade_log[2].side

(* The live executor *)

LiveOrderOps == {"market_buy", "market_sell", "limit_buy", "limit_sell"}

Terminal == {"InsufficientFunds", "InvalidOrder"}

\* the step is the return of a _place_order call
PlaceOrderReturns ==
    /\ last'.op \in LiveOrderOps
    /\ pc' = "idle"
    /\ (pc = "create_order" \/ last' # last)

\* C19: in the live executor an order attempt that ends with insufficient
\* funds or invalid order is the last attempt of its call, and a call whose
\* amount is below the exchange minimum makes no attempt: the call returns
\* None and create_order is not invoked again for it (no invocation below the
\* minimum, exactly one when the first attempt ends so).
C19_TerminalNotRetried ==
    [][/\ PlaceOrderReturns
          => IF BelowMinimum(executor, last'.amount)
             THEN /\ last'.order = None
                  /\ last'.calls = 0
                  /\ executor'.create_order_calls = executor.create_order_calls
             ELSE \A i \in 1..MaxRetries :
                     (/\ last'.replies[i] \in Terminal
                      /\ \A j \in 1..(i - 1) : last'.replies[j] \in Transient)
                        => /\ last'.order = None
                           /\ last'.calls = i
       /\ pc' = "create_order"
          => \A j \in 1..tick'.attempt :
                 ClientReply(tick'.outcomes[j]) \notin Terminal]_vars

C19_InsufficientFundsAfterNetworkError ==
    /\ mode = "live" /\ last.op \in LiveOrderOps
    /\ last.replies[1] = "NetworkError"
    /\ last.replies[2] = "InsufficientFunds"
    /\ last.replies[3] = "ok"
    /\ last.order = None
    /\ executor.create_order_calls = 2

\* C20: when the live exchange is unreachable, get_balance of the live
\* executor fails with a connectivity error that reaches its caller, and
\* update_equity appends no sample made from a value it handed back.
C20_UnreachableBalanceFails ==
    [][(last'.op \in {"get_balance", "update_equity"} /\ last'.reply \in Transient)
          => /\ last'.raised # None
             /\ om'.equity_curve = om.equity_curve]_vars

\* C21: a close_all whose cancel_all_orders fails on the executor is not
\* fatal: close_all still completes without raising, with the position flat
\* and, from a non-flat position, the Trade Record appended, also when the
\* flatten order before it succeeded.
C21_CancelFailureNotFatal ==
    [][(/\ pc = "ca_cancel" /\ pc' \in {"idle", "exited"}
        /\ last'.op \in {"close_all", "shutdown"} /\ last'.cancel_reply # "ok")
          => /\ last'.raised = None
             /\ last'.cancels = 1
             /\ om'.position = FlatPosition
             /\ Requests(last'.orders) = ClosingRequests(last'.position)
             /\ IF last'.position.side # 0
                THEN /\ Len(om'.trades) = last'.trades + 1
                     /\ Last(om'.trades).exit = last'.price
                     /\ Last(om'.trades).side = last'.position.side
                ELSE Len(om'.trades) = last'.trades]_vars

C21_FlattenedButCancelFailed ==
    /\ mode = "live" /\ last.op = "close_all"
    /\ last.cancel_reply = "NetworkError"
    /\ Len(last.orders) = 1
    /\ last.orders[1].method = "market_sell"
    /\ last.orders[1].order # None
    /\ om.position = FlatPosition
    /\ om.trades # << >>

\* C22: a call with a negative amount (execute_signal, market_buy,
\* market_sell) is refused at call time: it returns no order and changes
\* neither the position of the Order Manager nor the cash or the inventory
\* of the ledger.
C22_NegativeAmountRefused ==
    [][(/\ last'.op \in {"execute_signal", "market_buy", "market_sell"}
        /\ last'.amount < 0)
          => /\ last'.order = None
             /\ om'.position = om.position
             /\ executor'.usdt = executor.usdt
             /\ executor'.btc = executor.btc]_vars

----------------------------------------------------------------------------
(* Event-based backtest engines: helpers of the properties *)

BtReturned == mode = "backtest" /\ bt.phase = "done"

\* the step is one pass of the loop of run()
BtBarStep == mode = "backtest" /\ bt.phase = "loop" /\ bt'.phase = "loop" /\ bt'.bar = bt.bar + 1

\* the step is the end of run()
BtFinishStep == mode = "backtest" /\ bt.phase = "loop" /\ bt'.phase = "done"

\* signal of bar i, a bar beyond the end of the series counting as 0
SignalOfBar(b, i) == IF i <= Len(b.signals) THEN b.signals[i] ELSE 0

\* cash and position as the trade log leaves them after the trades of bars 1..i
LedgerAfterBar(b, i) ==
    LET upto == {k \in 1..Len(b.trade_log) : b.trade_log[k].bar <= i}
    IN IF upto = {} THEN [cash |-> b.initial_capital, position |-> 0]
       ELSE LET k == CHOOSE k \in upto : \A j \in upto : j <= k
            IN [cash |-> b.trade_log[k].cash, position |-> b.trade_log[k].position]

\* the percentage and fixed cost of trading units at price
CostOfTrade(b, units, price) == b.ftc + (Abs(units * price) * b.ptc.num) \div b.ptc.den

(* C24: after run() of either engine over N bars, portfolio_values has      *)
(* exactly N entries, in bar order, and entry i is cash + position *        *)
(* price_i with cash and position as they stand after the trades of bar i.  *)
C24_OneValuePerBar ==
    BtReturned =>
        /\ Len(bt.portfolio_values) = Len(bt.prices)
        /\ \A i \in 1..Len(bt.prices) :
              LET after == LedgerAfterBar(bt, i)
              IN bt.portfolio_values[i] = after.cash + after.position * bt.prices[i]

\* a finished run of three bars or more that held units after some bar
C24_ValuedWhileHolding ==
    /\ BtReturned
    /\ Len(bt.prices) >= 3
    /\ \E i \in 1..(Len(bt.prices) - 1) : LedgerAfterBar(bt, i).position # 0
    /\ bt.trades >= 2

(* C25: when run() returns the position is 0; if units were held after the  *)
(* last bar, the end of run() made exactly one more trade, closing the      *)
(* whole position at the last bar's price, and replaced the last portfolio  *)
(* value, without adding one, by the cash after that trade, cost included.  *)
C25_ForcedClose ==
    [][BtFinishStep =>
        LET n == Len(bt.prices)
            price == bt.prices[n]
        IN /\ bt'.position = 0
           /\ IF bt.position # 0
              THEN /\ bt'.trades = bt.trades + 1
                   /\ Len(bt'.trade_log) = Len(bt.trade_log) + 1
                   /\ SubSeq(bt'.trade_log, 1, Len(bt.trade_log)) = bt.trade_log
                   /\ Last(bt'.trade_log).bar = n
                   /\ Last(bt'.trade_log).price = price
                   /\ Last(bt'.trade_log).units = Abs(bt.position)
                   /\ Last(bt'.trade_log).action = IF bt.position > 0 THEN "SELL" ELSE "BUY"
                   /\ bt'.cash = bt.cash + bt.position * price
                                    - CostOfTrade(bt, bt.position, price)
                   /\ Len(bt'.portfolio_values) = Len(bt.portfolio_values)
                   /\ \A i \in 1..(n - 1) : bt'.portfolio_values[i] = bt.portfolio_values[i]
                   /\ bt'.portfolio_values[n] = bt'.cash
              ELSE /\ bt'.trades = bt.trades
                   /\ bt'.trade_log = bt.trade_log
                   /\ bt'.cash = bt.cash
                   /\ bt'.portfolio_values = bt.portfolio_values]_vars

\* a run has returned whose last bar asked for exposure: the close was forced, and it cost
C25_ClosedAtTheEnd ==
    /\ BtReturned
    /\ SignalOfBar(bt, Len(bt.prices)) = 1
    /\ bt.trades >= 2
    /\ Last(bt.trade_log).bar = Len(bt.prices)
    /\ Last(bt.trade_log).action = "SELL"
    /\ Last(bt.trade_log).tc > 0
    /\ Last(bt.portfolio_values) = bt.cash

(* C26: in the long-only engine the position is never negative; after bar   *)
(* i of the loop it is positive exactly when signal_i > 0, a bar beyond     *)
(* the end of the signal series counting as 0; units are bought only from   *)
(* a flat position and a sale leaves exactly 0.                             *)
C26_LongOnlyPosition ==
    [][(mode = "backtest" /\ bt.engine = "long_only") =>
        /\ bt'.position >= 0
        /\ BtBarStep =>
              /\ (bt'.position > 0) <=> (SignalOfBar(bt, bt'.bar) > 0)
              /\ (bt'.position > bt.position) => bt.position = 0
              /\ (bt'.position < bt.position) => bt'.position = 0
              /\ (bt'.trades # bt.trades) => bt'.position # bt.position]_vars

\* the long-only loop is flat after a bar beyond the end of the series, having bought and sold
C26_FlatOnMissingSignal ==
    /\ mode = "backtest" /\ bt.engine = "long_only" /\ bt.phase = "loop"
    /\ bt.bar > Len(bt.signals)
    /\ bt.position = 0
    /\ bt.trades = 2
    /\ Last(bt.trade_log).bar = bt.bar

(* C27: in the long/short engine the unit size is fixed for the run at      *)
(* max(1, floor(initial_capital * 0.95 / first price)); after bar i of the  *)
(* loop the position is signal_i * unit size; bar i trades exactly when     *)
(* that target differs from the position before the bar, and trades the     *)
(* difference.                                                              *)
C27_LongShortTarget ==
    [][(BtBarStep /\ bt.engine = "long_short") =>
        LET unitSize == Max(1, (bt.initial_capital * 19) \div (20 * bt.prices[1]))
            target == SignalOfBar(bt, bt'.bar) * unitSize
        IN /\ bt.unit_size = Some(unitSize)
           /\ bt'.unit_size = bt.unit_size
           /\ bt'.position = target
           /\ bt'.position \in {-unitSize, 0, unitSize}
           /\ (bt'.trades = bt.trades + 1) <=> (target # bt.position)
           /\ (bt'.trades = bt.trades) <=> (target = bt.position)
           /\ Len(bt'.trade_log) = bt'.trades
           /\ (target # bt.position) =>
                 /\ Last(bt'.trade_log).bar = bt'.bar
                 /\ Last(bt'.trade_log).units = Abs(target - bt.position)
                 /\ Last(bt'.trade_log).action = IF target > bt.position THEN "BUY" ELSE "SELL"]_vars

\* the capital buys less than one unit at the first price, and the loop has reversed to short
C27_MinimumUnitShort ==
    /\ mode = "backtest" /\ bt.engine = "long_short" /\ bt.phase = "loop"
    /\ bt.initial_capital * 19 < 20 * bt.prices[1]
    /\ bt.position = -1
    /\ bt.trades >= 2
    /\ Last(bt.trade_log).units = 2

\* the target exposure of bar i in signal units; flat before the first bar and after the last
TargetOfBar(b, i) == IF i >= 1 /\ i <= Len(b.prices) THEN SignalOfBar(b, i) ELSE 0

\* number of places in bars from..to where the target differs from that of the bar before
TargetChanges(b, from, to) ==
    Cardinality({i \in from..to : TargetOfBar(b, i) # TargetOfBar(b, i - 1)})

(* C28 as stated: the n_trades reported by a long/short run equals the      *)
(* number of sign changes between consecutive entries of the target         *)
(* sequence.                                                                *)
C28_TradesAreSignChanges ==
    (BtReturned /\ bt.engine = "long_short") =>
        bt.summary[1].n_trades = TargetChanges(bt, 2, Len(bt.prices))

(* C28 amended: the n_trades reported by a long/short run equals the number *)
(* of changes in the target sequence taken flat before the first bar and    *)
(* flat after the last one: the entry from flat and the forced close at the *)
(* end are trades as well.                                                  *)
C28_TradesAreTargetChangesFromFlatToFlat ==
    (BtReturned /\ bt.engine = "long_short") =>
        bt.summary[1].n_trades = TargetChanges(bt, 1, Len(bt.prices) + 1)

\* an alternating series: entry, two reversals and the forced close make four trades
C28_AlternatingSeries ==
    /\ BtReturned /\ bt.engine = "long_short"
    /\ bt.signals = <<1, -1, -1, 1>>
    /\ bt.summary[1].n_trades = 4
    /\ TargetChanges(bt, 2, Len(bt.prices)) = 2

\* the run of the same engine on the same bars, signals and capital with ftc = 0 and ptc = 0
CostFreeRun(b) ==
    run(Backtest(b.engine, b.prices, b.signals, b.initial_capital, 0, [num |-> 0, den |-> 1]))

\* the signed units of the trades of a run, in order
SignedUnits(b) ==
    [k \in 1..Len(b.trade_log) |->
        IF b.trade_log[k].action = "BUY" THEN b.trade_log[k].units ELSE -b.trade_log[k].units]

(* C29 as stated: the final value of a long-only run with costs is at most  *)
(* the final value of the run on the same bars, signals and capital with    *)
(* ftc = 0 and ptc = 0.                                                     *)
C29_CostsNeverHelp ==
    (BtReturned /\ bt.engine = "long_only") =>
        bt.summary[1].final_value <= CostFreeRun(bt).summary[1].final_value

(* C29 amended: the final value of a long-only run with costs is at most    *)
(* that of the cost-free run on the same bars, signals and capital whenever *)
(* the two runs trade the same units at every trade.  (The units of a buy   *)
(* come from the cash at hand, so costs paid earlier can make a later buy   *)
(* smaller, and a smaller position loses less when the price falls.)        *)
C29_CostsNeverHelpSameUnits ==
    (BtReturned /\ bt.engine = "long_only") =>
        LET free == CostFreeRun(bt)
        IN SignedUnits(bt) = SignedUnits(free) =>
              bt.summary[1].final_value <= free.summary[1].final_value

\* a run with both costs that traded the same units as the cost-free run and ended lower
C29_SameUnitsLowerValue ==
    /\ BtReturned /\ bt.engine = "long_only"
    /\ bt.ftc > 0 /\ bt.ptc.num > 0
    /\ bt.trades >= 4
    /\ SignedUnits(bt) = SignedUnits(CostFreeRun(bt))
    /\ bt.summary[1].final_value < CostFreeRun(bt).summary[1].final_value

\* exposure side of the long-only engine: 1 long, 0 flat
LongOnlySide(b) == IF b.position > 0 THEN 1 ELSE 0

\* both engines have processed the same bars, one at least, and the loop is not over
AfterSomeBar == mode = "refinement" /\ bt.phase = "loop" /\ bt.bar >= 1

(* C23: fed the same bars and the same signal for each bar, the long-only   *)
(* backtest engine and the paper-mode live engine hold the same exposure    *)
(* side after every bar.                                                    *)
C23_SameSideAfterEveryBar ==
    AfterSomeBar => om.position.side = LongOnlySide(bt)

\* the rows of the DataFrame run() returned
VecResults == bt.results[1]

VecReturned == mode = "vectorized" /\ bt.results # None

(* C30: with ptc = 0 the strategy_net column of the vectorized backtest     *)
(* equals its gross strategy column at every row, whatever the changes of   *)
(* position.                                                                *)
C30_ZeroCostNetEqualsGross ==
    (VecReturned /\ bt.ptc.num = 0) =>
        \A j \in 1..Len(VecResults) :
            ValueEq(VecResults[j].strategy_net, VecResults[j].strategy)

\* a run with ptc = 0 over three rows that reversed its position on a bar with a return
C30_ReversedAtNoCost ==
    /\ VecReturned /\ bt.ptc.num = 0
    /\ Len(VecResults) >= 3
    /\ \E j \in 1..Len(VecResults) :
          /\ VecResults[j].trades = 2
          /\ VecResults[j].strategy.ln2 # 0
          /\ VecResults[j].strategy_net = VecResults[j].strategy

KellyReturned == mode = "optimal_leverage" /\ bt.result # None

\* |x| <= |y| for real numbers sign * mant * 2^exp
AbsLeq(x, y) ==
    LET e == IF x.exp < y.exp THEN x.exp ELSE y.exp
    IN ~BigLess(Shl(y.mant, y.exp - e), Shl(x.mant, x.exp - e))

\* x * 2^k
Scaled(x, k) == [x EXCEPT !.exp = @ + k]

Negative(x) == x.sign = -1 /\ x.mant # << >>

\* |x - y| < 10^-10
WithinTolerance(x, y) ==
    LET tenth_power == [sign |-> 1, mant |-> BigMul(Digits(100000), Digits(100000)),
                        exp |-> 0]
    IN ~AbsLeq([sign |-> 1, mant |-> <<1>>, exp |-> 0],
               ExactMul(ExactSub(x, y), tenth_power))

\* the result is (mu - r) / sigma^2 of the arguments up to the rounding of
\* the three operations: |f * sigma^2 - (mu - r)| * 2^50 <= |mu - r|
KellyQuotient(f, mu, sigma, r) ==
    LET excess == ExactSub(mu, r)
    IN AbsLeq(Scaled(ExactSub(ExactMul(f, ExactMul(sigma, sigma)), excess), 50), excess)

IsTestCall(mu, sigma, r, hundredths) ==
    mu = Float(10, 100) /\ sigma = Float(20, 100) /\ r = Float(hundredths, 100)

(* C31: optimal_leverage(mu, sigma, r) is (mu - r) / sigma^2 when sigma > 0 *)
(* and 0 when sigma <= 0; optimal_leverage(0.10, 0.20, 0.0) is 2.5,         *)
(* optimal_leverage(0.10, 0.20, 0.02) is 2.0, and the result is negative    *)
(* when mu < r (and sigma > 0).                                             *)
C31_KellyLeverage ==
    KellyReturned =>
        LET f == bt.result[1]
        IN /\ ~NotPositive(bt.sigma) => KellyQuotient(f, bt.mu, bt.sigma, bt.r)
           /\ NotPositive(bt.sigma) => f = Zero
           /\ IsTestCall(bt.mu, bt.sigma, bt.r, 0) => f = Float(5, 2)
           /\ IsTestCall(bt.mu, bt.sigma, bt.r, 2) => f = Float(2, 1)
           /\ (~NotPositive(bt.sigma) /\ Negative(ExactSub(bt.mu, bt.r))) => Negative(f)

(* C31 amended: optimal_leverage(mu, sigma, r) is (mu - r) / sigma^2 of its *)
(* arguments up to the rounding of the float operations when sigma > 0 and  *)
(* 0 when sigma <= 0; optimal_leverage(0.10, 0.20, 0.0) is within 1e-10 of  *)
(* 2.5 and optimal_leverage(0.10, 0.20, 0.02) within 1e-10 of 2.0, and the  *)
(* result is negative when mu < r (and sigma > 0).                          *)
C31_KellyLeverageUpToRounding ==
    KellyReturned =>
        LET f == bt.result[1]
        IN /\ ~NotPositive(bt.sigma) => KellyQuotient(f, bt.mu, bt.sigma, bt.r)
           /\ NotPositive(bt.sigma) => f = Zero
           /\ IsTestCall(bt.mu, bt.sigma, bt.r, 0) => WithinTolerance(f, Float(5, 2))
           /\ IsTestCall(bt.mu, bt.sigma, bt.r, 2) => WithinTolerance(f, Float(2, 1))
           /\ (~NotPositive(bt.sigma) /\ Negative(ExactSub(bt.mu, bt.r))) => Negative(f)

\* the call of the tests with a risk-free rate has returned
\* 1.9999999999999996 = (2^53 - 2) * 2^-52
C31_WithRiskFreeRate ==
    /\ KellyReturned
    /\ IsTestCall(bt.mu, bt.sigma, bt.r, 2)
    /\ bt.result[1] = [sign |-> 1, mant |-> <<32766, 32767, 32767, 255>>, exp |-> -52]
    /\ bt.result[1] # Float(2, 1)

\* number of attempts of a call answered by a transient error before its first other answer
LeadingTransient(replies) ==
    Cardinality({i \in 1..MaxRetries : \A j \in 1..i : replies[j] \in Transient})

(* C32: an order placement on the live executor is a bounded retry:         *)
(* create_order is invoked at most 3 times per call; after a transient      *)
(* error on attempt k the executor sleeps 2^(k-1) seconds; when all 3       *)
(* attempts end in transient errors the call returns None; the first        *)
(* accepted attempt ends the call, which returns that order.                *)
C32_BoundedRetry ==
    [][/\ (PlaceOrderReturns /\ ~BelowMinimum(executor, last'.amount))
          => LET n == LeadingTransient(last'.replies)
                 calls == last'.calls
             IN /\ calls <= 3
                /\ calls = Min(n + 1, 3)
                /\ last'.attempts = calls
                /\ last'.slept = 2 ^ n - 1
                /\ n = 3 => last'.order = None
                /\ (n < 3 /\ last'.replies[n + 1] = "ok")
                      => /\ last'.order # None
                         /\ last'.order[1].id = <<"mexc", executor'.create_order_calls>>
                         /\ last'.order[1].amount = last'.amount
                /\ (n < 3 /\ last'.replies[n + 1] # "ok") => last'.order = None
       /\ pc' = "create_order"
          => /\ tick'.attempt < 3
             /\ executor'.create_order_calls - tick'.calls = tick'.attempt
             /\ executor'.slept - tick'.slept = 2 ^ tick'.attempt - 1]_vars

\* the third attempt was accepted after two network errors and sleeps of 1 s and 2 s
C32_AcceptedOnThirdAttempt ==
    /\ mode = "live" /\ last.op \in LiveOrderOps
    /\ last.replies[1] = "NetworkError"
    /\ last.replies[2] = "ExchangeNotAvailable"
    /\ last.replies[3] = "ok"
    /\ last.order # None
    /\ executor.create_order_calls = 3
    /\ executor.slept = 3

(* C33: once check_risk has returned False on an Order Manager (which is    *)
(* when it set the halt flag), every later check_risk call on it returns    *)
(* False as well, whatever equity samples were appended in between.         *)
C33_VerdictNotTransient ==
    [][(last'.op = "check_risk" /\ om.halted) => last'.ok = FALSE]_vars

(* C34: for an Order Manager over the simulated ledger, the executor's      *)
(* price being the call's price, after every execute_signal and close_all   *)
(* the ledger's base inventory equals position.side * position.amount,      *)
(* whatever the signals and whether the orders were filled or rejected.     *)
C34_PositionMatchesLedger ==
    [][(/\ last'.op \in {"execute_signal", "close_all"}
        /\ last'.price = executor.last_price)
          => executor'.btc = om'.position.side * om'.position.amount]_vars

\* requests of a sequence that close the position p
ClosingOrdersOf(p, requests) ==
    Cardinality({i \in 1..Len(requests) :
                    /\ p.side # 0
                    /\ requests[i].amount = p.amount
                    /\ requests[i].method = IF p.side = 1 THEN "market_sell" ELSE "market_buy"})

\* the closing order, when there is one, is the first request of the call
FirstRequest(requests) == IF requests = << >> THEN << >> ELSE <<requests[1]>>

(* C35: a shutdown interrupt delivered at any point of the control loop,    *)
(* the middle of an execute_signal call included, never closes the same     *)
(* exposure twice: for the position held when the interrupted call began,   *)
(* the call and the handler together send at most one closing order and     *)
(* append at most one Trade Record.                                         *)
C35_ShutdownClosesOnce ==
    [][(mode = "shutdown" /\ last'.op = "shutdown")
          => /\ ClosingOrdersOf(last'.start, FirstRequest(last'.sent))
                   + ClosingOrdersOf(last'.start, last'.orders) <= 1
             /\ Len(om'.trades) - last'.n_trades <= 1]_vars

(* C36: one market_buy or market_sell call on the live executor results in *)
(* at most one order accepted by the exchange, for every outcome of each   *)
(* attempt, a network error reported for an attempt whose order the        *)
(* exchange had already accepted included.                                 *)
C36_AtMostOneAccepted ==
    (mode = "exchange" /\ last.op \in {"market_buy", "market_sell"})
        => last.accepted <= 1

(* C37: in the long-only engine cash never becomes negative at any bar:    *)
(* every buy, transaction costs included, costs no more than the cash      *)
(* available just before it, for any positive prices, any ftc >= 0 and     *)
(* ptc >= 0 and any initial capital.                                       *)
C37_LongOnlyCashNonNegative ==
    (mode = "backtest" /\ bt.engine = "long_only") => bt.cash >= 0

\* the step of run() executed a trade
TradeExecuted ==
    \/ bt'.position # bt.position
    \/ bt'.cash # bt.cash
    \/ bt'.trades # bt.trades
    \/ bt'.trade_log # bt.trade_log

\* the bar whose price the step trades at
BarOfStep == IF bt.bar < Len(bt.prices) THEN bt.bar + 1 ELSE Len(bt.prices)

(* C38: in the event-based engine, executing a trade of u units at bar i    *)
(* lowers the mark-to-market portfolio value at that bar (cash + position   *)
(* * price_i) by exactly the transaction cost ftc + |u * price_i| * ptc and *)
(* by nothing else (unchanged when both costs are 0); each executed trade   *)
(* increments the trade counter by one and appends one trade_log entry, so  *)
(* trades == len(trade_log) in every state.                                 *)
C38_TradeCostsOnlyItsCost ==
    /\ [](mode = "backtest" => bt.trades = Len(bt.trade_log))
    /\ [][(mode = "backtest" /\ bt.phase = "loop" /\ TradeExecuted) =>
            LET price == bt.prices[BarOfStep]
                u == bt'.position - bt.position
            IN /\ u # 0
               /\ bt'.cash + bt'.position * price
                     = bt.cash + bt.position * price - CostOfTrade(bt, u, price)
               /\ (bt.ftc = 0 /\ bt.ptc.num = 0)
                     => bt'.cash + bt'.position * price = bt.cash + bt.position * price
               /\ bt'.trades = bt.trades + 1
               /\ Len(bt'.trade_log) = Len(bt.trade_log) + 1
               /\ SubSeq(bt'.trade_log, 1, Len(bt.trade_log)) = bt.trade_log
               /\ Last(bt'.trade_log).bar = BarOfStep
               /\ Last(bt'.trade_log).units = Abs(u)
               /\ Last(bt'.trade_log).tc = CostOfTrade(bt, u, price)]_vars

\* a long/short run in its loop has reversed its position, paying both costs
C38_ReversalPaidBothCosts ==
    /\ mode = "backtest" /\ bt.engine = "long_short" /\ bt.phase = "loop"
    /\ bt.ftc > 0 /\ bt.ptc.num > 0
    /\ bt.trades = 2
    /\ Len(bt.trade_log) = 2
    /\ bt.trade_log[2].units = 2 * bt.trade_log[1].units
    /\ bt.trade_log[2].tc > bt.trade_log[1].tc
    /\ bt.position # 0

\* the checks, by tick, on which the rule named name has fired
FiringsOf(am, name) ==
    {am.alerts[k].tick : k \in {j \in DOMAIN am.alerts : am.alerts[j].name = name}}

(* C39: for every alert rule of an AlertManager, on each check whose metric *)
(* value satisfies the rule's comparator against its threshold, the rule    *)
(* fires unless it has itself fired within the previous cooldown_ticks      *)
(* checks; a rule that has never fired fires on the first check on which    *)
(* its condition holds, and two firings of the same rule are at least       *)
(* cooldown_ticks checks apart.                                             *)
C39_FiresOutsideCooldown ==
    [][(mode = "alerts" /\ last'.op = "check") =>
        \A i \in 1..Len(bt.rules) :
            LET rule == bt.rules[i]
                value == last'.metrics[rule.metric]
                t == bt'.tick
                before == FiringsOf(bt, rule.name)
                after == FiringsOf(bt', rule.name)
            IN /\ (value # None /\ Triggered(rule, value[1]))
                     => \/ t \in after
                        \/ \E f \in before : t - f <= rule.cooldown_ticks
               /\ \A f, g \in after : f < g => g - f >= rule.cooldown_ticks]_vars

----------------------------------------------------------------------------
TypeOK ==
    /\ om.position.side \in Signals
    /\ om.halted \in BOOLEAN
    /\ Len(om.equity_curve) >= 1
    /\ executor.order_count = Len(executor.trade_log)

====
